---- MODULE Spec2Model ----
(***************************************************************************)
(* Models of the Lambda handlers of the repository.  Every handler is a    *)
(* separate program: each has its own variables, its own initial predicate *)
(* and its own next-state relation, and a specification of its own.  While *)
(* one program runs, the variables of the others stay at their "off"       *)
(* values.  Spec is the union of the programs.                             *)
(*                                                                         *)
(* Python values are modelled by what the code does with them: a JSON      *)
(* field is absent, a number, or a string (a sequence of one-character     *)
(* strings); an AWS call either returns or raises.                         *)
(***************************************************************************)
EXTENDS Integers, Sequences, FiniteSets, TLC

VARIABLES
    \* contact_handler.py
    cBody,        \* the parsed request body (input)
    cPc,          \* position in lambda_handler
    cValidation,  \* what validate_form_data returned
    cCalls,       \* the AWS calls issued so far, in order
    cTable,       \* the items of the DynamoDB table
    cResp,        \* the response returned
    \* data_processor.py
    dpPc,         \* position in lambda_handler: "loop", "returned", "raised"
    dpSeen,       \* per record of event['Records'] handled so far: what it
                  \* carried and the steps run for it
    dpProcessed,  \* processed_records
    dpFailed,     \* failed_records
    dpResp,       \* the body returned
    \* the helper functions of data_processor.py, called on their own
    fnPc,         \* "start" before the call, "done" after
    fnIn,         \* the function called and its argument
    fnOut,        \* what the call returned or raised
    \* ml_inference.py
    mlPc,         \* "start" before lambda_handler ran, "done" after
    mlIn,         \* the event, the context and what the AWS calls will answer
    mlOut,        \* the response, the features and the calls issued
    \* the three cost_optimizer.py handlers
    coPc, coIn, coOut,
    \* auto_remediation.py
    arPc, arIn, arOut,
    \* security_response.py
    srPc, srIn, srOut,
    \* cross_region_backup.py
    bkPc, bkIn, bkOut,
    \* compliance_monitor.py
    cmPc, cmIn, cmSt,
    \* performance_tester.py: run_load_tests
    ltPc, ltSt, ltOut,
    \* emr_steps.py: monitor_step
    emPc, emSt, emOut,
    \* sample_data_generator.py: generate_data
    gnPc, gnSt,
    \* data_quality_checker.py: lambda_handler
    qcPc, qcSt, qcOut,
    \* broken_contact_handler.py: lambda_handler
    bhPc, bhIn, bhOut,
    \* security_response.py: isolate_instance
    isoPc, isoSt

contactVars == <<cBody, cPc, cValidation, cCalls, cTable, cResp>>
dpVars == <<dpPc, dpSeen, dpProcessed, dpFailed, dpResp>>
fnVars == <<fnPc, fnIn, fnOut>>
mlVars == <<mlPc, mlIn, mlOut>>
coVars == <<coPc, coIn, coOut>>
arVars == <<arPc, arIn, arOut>>
srVars == <<srPc, srIn, srOut>>
bkVars == <<bkPc, bkIn, bkOut>>
cmVars == <<cmPc, cmIn, cmSt>>
ltVars == <<ltPc, ltSt, ltOut>>
emVars == <<emPc, emSt, emOut>>
gnVars == <<gnPc, gnSt>>
qcVars == <<qcPc, qcSt, qcOut>>
bhVars == <<bhPc, bhIn, bhOut>>
isoVars == <<isoPc, isoSt>>

vars == <<contactVars, dpVars, fnVars, mlVars, coVars, arVars, srVars, bkVars, cmVars, ltVars, emVars, gnVars, qcVars, bhVars, isoVars>>

\* the variables of the programs other than p stay as they are
Frame(p) ==
    /\ IF p = "contact" THEN TRUE ELSE UNCHANGED contactVars
    /\ IF p = "dp" THEN TRUE ELSE UNCHANGED dpVars
    /\ IF p = "fn" THEN TRUE ELSE UNCHANGED fnVars
    /\ IF p = "ml" THEN TRUE ELSE UNCHANGED mlVars
    /\ IF p = "cost" THEN TRUE ELSE UNCHANGED coVars
    /\ IF p = "ar" THEN TRUE ELSE UNCHANGED arVars
    /\ IF p = "sr" THEN TRUE ELSE UNCHANGED srVars
    /\ IF p = "bk" THEN TRUE ELSE UNCHANGED bkVars
    /\ IF p = "cm" THEN TRUE ELSE UNCHANGED cmVars
    /\ IF p = "lt" THEN TRUE ELSE UNCHANGED ltVars
    /\ IF p = "em" THEN TRUE ELSE UNCHANGED emVars
    /\ IF p = "gn" THEN TRUE ELSE UNCHANGED gnVars
    /\ IF p = "qc" THEN TRUE ELSE UNCHANGED qcVars
    /\ IF p = "bh" THEN TRUE ELSE UNCHANGED bhVars
    /\ IF p = "iso" THEN TRUE ELSE UNCHANGED isoVars

\* the programs other than p are not running
Off(p) ==
    /\ IF p = "contact" THEN TRUE
       ELSE cBody = [kind |-> "off"] /\ cPc = "off" /\ cValidation = <<>>
            /\ cCalls = <<>> /\ cTable = {} /\ cResp = <<>>
    /\ IF p = "dp" THEN TRUE
       ELSE dpPc = "off" /\ dpSeen = <<>> /\ dpProcessed = <<>>
            /\ dpFailed = <<>> /\ dpResp = <<>>
    /\ IF p = "fn" THEN TRUE
       ELSE fnPc = "off" /\ fnIn = <<>> /\ fnOut = <<>>
    /\ IF p = "ml" THEN TRUE
       ELSE mlPc = "off" /\ mlIn = <<>> /\ mlOut = <<>>
    /\ IF p = "cost" THEN TRUE
       ELSE coPc = "off" /\ coIn = <<>> /\ coOut = <<>>
    /\ IF p = "ar" THEN TRUE
       ELSE arPc = "off" /\ arIn = <<>> /\ arOut = <<>>
    /\ IF p = "sr" THEN TRUE
       ELSE srPc = "off" /\ srIn = <<>> /\ srOut = <<>>
    /\ IF p = "bk" THEN TRUE
       ELSE bkPc = "off" /\ bkIn = <<>> /\ bkOut = <<>>
    /\ IF p = "cm" THEN TRUE
       ELSE cmPc = "off" /\ cmIn = <<>> /\ cmSt = <<>>
    /\ IF p = "lt" THEN TRUE
       ELSE ltPc = "off" /\ ltSt = <<>> /\ ltOut = <<>>
    /\ IF p = "em" THEN TRUE
       ELSE emPc = "off" /\ emSt = <<>> /\ emOut = <<>>
    /\ IF p = "gn" THEN TRUE
       ELSE gnPc = "off" /\ gnSt = <<>>
    /\ IF p = "qc" THEN TRUE
       ELSE qcPc = "off" /\ qcSt = <<>> /\ qcOut = <<>>
    /\ IF p = "bh" THEN TRUE
       ELSE bhPc = "off" /\ bhIn = <<>> /\ bhOut = <<>>
    /\ IF p = "iso" THEN TRUE
       ELSE isoPc = "off" /\ isoSt = <<>>

(***************************************************************************)
(* JSON values                                                             *)
(***************************************************************************)
Absent == [t |-> "absent", s |-> <<>>]
Num == [t |-> "num", s |-> <<>>]
Str(chars) == [t |-> "str", s |-> chars]

\* Python truthiness of data.get(field): None and '' are falsy, a non-zero
\* number and a non-empty string are truthy
Truthy(v) == v.t = "num" \/ (v.t = "str" /\ v.s # <<>>)

RECURSIVE SeqsUpTo(_, _)
SeqsUpTo(S, n) ==
    IF n = 0 THEN {<<>>}
    ELSE LET shorter == SeqsUpTo(S, n - 1)
         IN shorter \cup {Append(q, c) : q \in {x \in shorter : Len(x) = n - 1}, c \in S}

RECURSIVE Repeat(_, _)
Repeat(c, n) == IF n = 0 THEN <<>> ELSE Append(Repeat(c, n - 1), c)

Chars(q) == {q[i] : i \in 1..Len(q)}

\* str.replace(old, '') for a one-character old
RECURSIVE Replace(_, _)
Replace(q, old) ==
    IF q = <<>> THEN <<>>
    ELSE IF Head(q) = old THEN Replace(Tail(q), old)
    ELSE <<Head(q)>> \o Replace(Tail(q), old)

\* str.isdigit(): every character is a digit and there is at least one
IsDigit(q) == q # <<>> /\ Chars(q) \subseteq {"7"}

(***************************************************************************)
(* contact_handler.py                                                      *)
(***************************************************************************)
MaxMsgLen == 11
MaxPhoneLen == 2
MinMessageLen == 10

RequiredFields == <<"name", "email", "subject", "message">>

\* the bodies lambda_handler can be given: one json.loads rejects
\* ("badjson"), a JSON value that is no object ("array"), or a JSON object
\* whose fields are absent, numbers or strings
ContactBodies ==
    LET names == {Absent, Str(<<>>), Str(<<"a">>)}
        emails == {Absent, Num, Str(<<>>), Str(<<"a">>), Str(<<"a", "@", "b">>)}
        messages == {Absent, Num} \cup {Str(Repeat("m", n)) : n \in 0..MaxMsgLen}
        phones == {Absent, Num} \cup
                  {Str(q) : q \in SeqsUpTo({"7", "-", "(", ")", " ", "x"}, MaxPhoneLen)}
    IN [kind : {"object"}, name : names, email : emails,
        subject : names, message : messages, phone : phones]
       \cup [kind : {"badjson", "array"}, name : {Absent}, email : {Absent},
             subject : {Absent}, message : {Absent}, phone : {Absent}]

\* the 'x is required' errors, in the order of required_fields
RECURSIVE RequiredErrors(_, _)
RequiredErrors(data, i) ==
    IF i > Len(RequiredFields) THEN <<>>
    ELSE (IF ~Truthy(data[RequiredFields[i]]) THEN <<RequiredFields[i] \o " is required">>
          ELSE <<>>) \o RequiredErrors(data, i + 1)

StripPhone(q) == Replace(Replace(Replace(Replace(q, "-"), "("), ")"), " ")

\* validate_form_data: raises when data is no dict or when a truthy email,
\* message or phone is a number ('@' not in 5, len(5), (5).replace);
\* otherwise returns valid and errors
ValidateFormData(data) ==
    IF data.kind # "object" \/ Num \in {data.email, data.message, data.phone}
    THEN [raised |-> TRUE, valid |-> FALSE, errors |-> <<>>]
    ELSE LET email == IF Truthy(data.email) /\ "@" \notin Chars(data.email.s)
                      THEN <<"Invalid email format">> ELSE <<>>
             message == IF Truthy(data.message) /\ Len(data.message.s) < MinMessageLen
                        THEN <<"Message must be at least 10 characters long">> ELSE <<>>
             phone == IF Truthy(data.phone) /\ ~IsDigit(StripPhone(data.phone.s))
                      THEN <<"Invalid phone number format">> ELSE <<>>
             errors == RequiredErrors(data, 1) \o email \o message \o phone
         IN [raised |-> FALSE, valid |-> errors = <<>>, errors |-> errors]

\* the headers create_response sets
CorsHeaders == {"Content-Type", "Access-Control-Allow-Origin",
                "Access-Control-Allow-Methods", "Access-Control-Allow-Headers"}

\* create_response
CreateResponse(status, error, details, sid) ==
    [statusCode |-> status, headers |-> CorsHeaders, error |-> error,
     details |-> details, submission_id |-> sid]

\* the except clause of lambda_handler
InternalError == CreateResponse(500, "Internal server error", <<>>, 0)

\* a handler that lacks the 'if not validation_result["valid"]' return
AfterValidationNoGate(v) ==
    IF v.raised THEN "raise" ELSE "store"

\* what lambda_handler does with the validation result
AfterValidation(v) ==
    IF v.raised THEN "raise"
    ELSE IF ~v.valid THEN "return400"
    ELSE "store"

InitContact ==
    /\ Off("contact")
    /\ cBody \in ContactBodies
    /\ cPc = "start"
    /\ cValidation = [raised |-> FALSE, valid |-> FALSE, errors |-> <<"not run">>]
    /\ cCalls = <<>>
    /\ cTable = {}
    /\ cResp = CreateResponse(0, "", <<>>, 0)

\* lines 26-41: parse the body and validate it
ContactValidate ==
    /\ cPc = "start"
    /\ IF cBody.kind = "badjson"
       THEN /\ cValidation' = cValidation
            /\ cResp' = InternalError
            /\ cPc' = "done"
       ELSE LET v == ValidateFormData(cBody)
                next == AfterValidation(v)
            IN /\ cValidation' = v
               /\ cResp' = CASE next = "raise" -> InternalError
                             [] next = "return400" ->
                                  CreateResponse(400, "Validation failed", v.errors, 0)
                             [] OTHER -> cResp
               /\ cPc' = IF next = "store" THEN "validated" ELSE "done"
    /\ UNCHANGED <<cBody, cCalls, cTable>>
    /\ Frame("contact")

\* the submission id uuid4 generates
NewSubmissionId == 1

\* process_contact_submission: put_item returns or raises ClientError
ContactStore ==
    /\ cPc = "validated"
    /\ \E ok \in BOOLEAN :
        /\ cCalls' = Append(cCalls, [api |-> "put_item", ok |-> ok])
        /\ IF ok
           THEN /\ cTable' = cTable \cup {NewSubmissionId}
                /\ cPc' = "stored"
                /\ cResp' = cResp
           ELSE /\ cTable' = cTable
                /\ cPc' = "done"
                /\ cResp' = InternalError
    /\ UNCHANGED <<cBody, cValidation>>
    /\ Frame("contact")

\* a send_notification_email that lets the failure of sns.publish out
AfterPublishRaising(ok) == IF ok THEN "return200" ELSE "raise"

\* send_notification_email: both except clauses log and return
AfterPublish(ok) == "return200"

\* send_notification_email, then lines 49-53
ContactNotify ==
    /\ cPc = "stored"
    /\ \E ok \in BOOLEAN :
        /\ cCalls' = Append(cCalls, [api |-> "publish", ok |-> ok])
        /\ cResp' = IF AfterPublish(ok) = "return200"
                    THEN CreateResponse(200, "", <<>>, NewSubmissionId)
                    ELSE InternalError
    /\ cPc' = "done"
    /\ UNCHANGED <<cBody, cValidation, cTable>>
    /\ Frame("contact")

NextContact == ContactValidate \/ ContactStore \/ ContactNotify

SpecContact == InitContact /\ [][NextContact]_vars

CallApis(calls) == [i \in 1..Len(calls) |-> calls[i].api]

\* C1: in every invocation the calls are a prefix of <<put_item, publish>>
\* (each at most once, in that order); put_item is issued only after
\* validate_form_data returned valid, publish only after put_item succeeded
C1_ValidateStorePublish ==
    /\ CallApis(cCalls) \in {<<>>, <<"put_item">>, <<"put_item", "publish">>}
    /\ cCalls # <<>> => (~cValidation.raised /\ cValidation.valid)
    /\ Len(cCalls) = 2 => cCalls[1].ok

C1_Witness ==
    /\ cPc = "done"
    /\ CallApis(cCalls) = <<"put_item", "publish">>
    /\ cResp.statusCode = 200

\* the bodies C2 names: a JSON object with a required field missing or
\* empty, an email without '@', a message shorter than 10 characters, or a
\* phone that is not digits once '-', '(', ')' and spaces are removed
MissingOrEmpty(v) == v.t = "absent" \/ (v.t = "str" /\ v.s = <<>>)

C2_FailsValidation(body) ==
    /\ body.kind = "object"
    /\ \/ \E i \in 1..Len(RequiredFields) : MissingOrEmpty(body[RequiredFields[i]])
       \/ (body.email.t = "str" /\ body.email.s # <<>> /\ "@" \notin Chars(body.email.s))
       \/ (body.message.t = "str" /\ body.message.s # <<>>
             /\ Len(body.message.s) < MinMessageLen)
       \/ (body.phone.t = "str" /\ body.phone.s # <<>>
             /\ ~IsDigit(StripPhone(body.phone.s)))

\* C2: a JSON object body that fails validation is answered with 400,
\* 'Validation failed' and the list of errors, and neither DynamoDB nor SNS
\* is touched
C2_InvalidBodyGets400 ==
    (cPc = "done" /\ C2_FailsValidation(cBody)) =>
        /\ cResp.statusCode = 400
        /\ cResp.error = "Validation failed"
        /\ cResp.details # <<>>
        /\ cCalls = <<>>

\* C18: when the body is valid and put_item succeeded, a failure of
\* sns.publish still gives 200 with the submission_id of the stored item,
\* which stays in the table; when put_item raises the handler returns 500
\* and sns.publish is never called
C18_PublishFailureTolerated ==
    cPc = "done" =>
        /\ (Len(cCalls) = 2 /\ cCalls[1].ok /\ ~cCalls[2].ok) =>
              /\ cResp.statusCode = 200
              /\ cResp.submission_id = NewSubmissionId
              /\ cResp.submission_id \in cTable
        /\ (cCalls # <<>> /\ ~cCalls[1].ok) =>
              /\ cResp.statusCode = 500
              /\ CallApis(cCalls) = <<"put_item">>
              /\ cTable = {}

C18_Witness ==
    /\ cPc = "done"
    /\ CallApis(cCalls) = <<"put_item", "publish">>
    /\ cCalls[1].ok /\ ~cCalls[2].ok
    /\ cResp.statusCode = 200
    /\ cTable = {NewSubmissionId}

(***************************************************************************)
(* data_processor.py                                                       *)
(***************************************************************************)
MaxRecords == 2

ValidEventTypes == {"view", "click", "purchase", "signup", "login", "logout"}

\* the records an event can carry.  kin: the record has no 'kinesis' key
\* ("none"), a kinesis dict without sequenceNumber ("noseq"), or one with it
\* ("full").  data: kinesis has no 'data' ("missing"), data that does not
\* decode to JSON ("undecodable"), JSON that is no object ("array"), or a
\* JSON object with the fields below.  timestamp: absent, a number, a string
\* that is no ISO-8601 time, an ISO-8601 string, or one ending in 'Z'.
\* value: absent, a number up to 100, a number above 100, a non-numeric string
DpRecords ==
    [kin : {"none", "noseq", "full"}, data : {"object"},
     timestamp : {"absent", "num", "bad", "iso", "isoZ"},
     user_id : {"absent", "u1"},
     event_type : ValidEventTypes \cup {"absent", "other"},
     value : {"absent", "low", "high", "text"}]
    \cup [kin : {"none", "noseq", "full"}, data : {"missing", "undecodable", "array"},
          timestamp : {"absent"}, user_id : {"absent"}, event_type : {"absent"},
          value : {"absent"}]

\* validate_data: "ok" when it returns, otherwise the exception it raises
ValidateData(d) ==
    CASE d.timestamp = "absent" -> "ValueError: Missing required field: timestamp"
      [] d.user_id = "absent" -> "ValueError: Missing required field: user_id"
      [] d.event_type = "absent" -> "ValueError: Missing required field: event_type"
      [] d.timestamp = "num" -> "AttributeError"
      [] d.timestamp = "bad" -> "ValueError: Invalid timestamp format"
      [] d.event_type \notin ValidEventTypes -> "ValueError: Invalid event_type"
      [] OTHER -> "ok"

\* determine_user_segment compares value with 100 unless the event is a
\* purchase, and extract_ml_features converts it with float() for purchase,
\* view and click: a non-numeric string makes one of the two raise
EnrichRaises(d) == d.value = "text"

\* what the SageMaker endpoint answers: invoke_endpoint raises, the body
\* is no JSON, or it is the JSON object {'predictions': [{'prediction': p,
\* 'confidence': c}]} ("nested") or {'prediction': p, 'confidence': c}
\* ("flat"); p and c are counted in tenths
SageMakerAnswers ==
    [kind : {"raises", "notjson"}, p : {0}, c : {0}]
    \cup [kind : {"nested", "flat"}, p : {8}, c : {9}]

\* a dict as get_ml_prediction returns it: its top-level keys and the values
\* under 'prediction' and 'confidence' (0 when they are no top-level keys)
Dict(keys, p, c) == [raised |-> FALSE, keys |-> keys, prediction |-> p, confidence |-> c]

\* a get_ml_prediction whose except clause raises again
GetMlPredictionReraise(answer) ==
    CASE answer.kind \in {"raises", "notjson"} ->
           [raised |-> TRUE, keys |-> {}, prediction |-> 0, confidence |-> 0]
      [] answer.kind = "nested" -> Dict({"predictions"}, 0, 0)
      [] answer.kind = "flat" -> Dict({"prediction", "confidence"}, answer.p, answer.c)

\* get_ml_prediction: the parsed body as it is, or the fallback of the
\* except clause
GetMlPrediction(answer) ==
    CASE answer.kind \in {"raises", "notjson"} -> Dict({"prediction", "confidence"}, 0, 0)
      [] answer.kind = "nested" -> Dict({"predictions"}, 0, 0)
      [] answer.kind = "flat" -> Dict({"prediction", "confidence"}, answer.p, answer.c)

\* lines 94-97: the ml_prediction process_record attaches, none for the
\* other event types
MlPrediction(d, answer) ==
    IF d.event_type \notin {"purchase", "view", "click"} THEN Dict({}, 0, 0)
    ELSE GetMlPrediction(answer)

\* a pipeline that writes the data lake before the warehouse
StagesS3First == <<"decode", "validate", "enrich", "s3", "redshift">>

\* the steps of the try block for one record, in program order
Stages == <<"decode", "validate", "enrich", "redshift", "s3">>

\* whether a step returns (TRUE) or raises (FALSE)
StageOk(stage, rec, answer, rsOk, s3Ok) ==
    CASE stage = "decode" -> rec.kin # "none" /\ rec.data \in {"object", "array"}
      [] stage = "validate" -> rec.data = "object" /\ ValidateData(rec) = "ok"
      [] stage = "enrich" -> ~EnrichRaises(rec) /\ ~MlPrediction(rec, answer).raised
      [] stage = "redshift" -> rsOk
      [] stage = "s3" -> s3Ok

\* run the steps from the i-th on: the first one that raises ends the try block
RECURSIVE RunStages(_, _, _, _, _)
RunStages(i, rec, answer, rsOk, s3Ok) ==
    IF i > Len(Stages) THEN <<>>
    ELSE LET ok == StageOk(Stages[i], rec, answer, rsOk, s3Ok)
         IN <<[step |-> Stages[i], ok |-> ok]>>
            \o (IF ok THEN RunStages(i + 1, rec, answer, rsOk, s3Ok) ELSE <<>>)

AllOk(steps) == Len(steps) = 5 /\ \A i \in 1..Len(steps) : steps[i].ok

\* an except clause that logs the error and drops the record
RecordOutcomeDropped(kin, steps) ==
    IF AllOk(steps) /\ kin = "full" THEN "processed"
    ELSE IF kin = "full" THEN "dropped"
    ELSE "raise"

\* lines 54-58: the append to processed_records, or the except clause, both
\* of which read record['kinesis']['sequenceNumber']
RecordOutcome(kin, steps) ==
    IF AllOk(steps) /\ kin = "full" THEN "processed"
    ELSE IF kin = "full" THEN "failed"
    ELSE "raise"

\* whether process_record reaches get_ml_prediction for the record: it is
\* decoded and validated, nothing before line 96 raises, and line 94 holds
Invokes(rec) ==
    /\ rec.kin # "none" /\ rec.data = "object" /\ ValidateData(rec) = "ok"
    /\ ~EnrichRaises(rec)
    /\ rec.event_type \in {"purchase", "view", "click"}

InitDP ==
    /\ Off("dp")
    /\ dpPc = "loop"
    /\ dpSeen = <<>>
    /\ dpProcessed = <<>>
    /\ dpFailed = <<>>
    /\ dpResp = [statusCode |-> 0, processed |-> 0, failed |-> 0]

\* one iteration of 'for record in event["Records"]'; the record's sequence
\* number is its position in the event.  sm: what invoke_endpoint answered
\* when get_ml_prediction was called (the answer is immaterial otherwise);
\* ml: the record's ml_prediction
DpRecord ==
    /\ dpPc = "loop"
    /\ Len(dpSeen) < MaxRecords
    /\ \E rec \in DpRecords, rsOk \in BOOLEAN, s3Ok \in BOOLEAN :
       \E answer \in {a \in SageMakerAnswers : Invokes(rec) \/ a.kind = "raises"} :
        LET seq == Len(dpSeen) + 1
            steps == RunStages(1, rec, answer, rsOk, s3Ok)
            enriched == Len(steps) >= 3 /\ steps[3].ok
            out == RecordOutcome(rec.kin, steps)
        IN /\ dpSeen' = Append(dpSeen,
                 [kin |-> rec.kin, steps |-> steps,
                  sm |-> IF Invokes(rec) THEN answer.kind ELSE "not invoked",
                  ml |-> IF enriched THEN MlPrediction(rec, answer) ELSE Dict({}, 0, 0)])
           /\ dpProcessed' = IF out = "processed" THEN Append(dpProcessed, seq)
                             ELSE dpProcessed
           /\ dpFailed' = IF out = "failed" THEN Append(dpFailed, seq) ELSE dpFailed
           /\ dpPc' = IF out = "raise" THEN "raised" ELSE "loop"
    /\ UNCHANGED dpResp
    /\ Frame("dp")

\* lines 60-72: the records are exhausted
DpReturn ==
    /\ dpPc = "loop"
    /\ dpPc' = "returned"
    /\ dpResp' = [statusCode |-> 200, processed |-> Len(dpProcessed),
                  failed |-> Len(dpFailed)]
    /\ UNCHANGED <<dpSeen, dpProcessed, dpFailed>>
    /\ Frame("dp")

NextDP == DpRecord \/ DpReturn

SpecDP == InitDP /\ [][NextDP]_vars

Elems(q) == {q[i] : i \in 1..Len(q)}
Increasing(q) == \A i, j \in 1..Len(q) : i < j => q[i] < q[j]

\* C3: when every record carries kinesis.sequenceNumber the handler returns
\* 200, processed + failed is the number of records, the counts are the
\* lengths of the two lists, and each sequence number is in exactly one list,
\* in input order: processed_records when decode, validation, enrichment and
\* both stores succeeded, failed_records otherwise
C3_EveryRecordAccounted ==
    (\A i \in 1..Len(dpSeen) : dpSeen[i].kin = "full") =>
        /\ dpPc # "raised"
        /\ dpPc = "returned" =>
            /\ dpResp.statusCode = 200
            /\ dpResp.processed + dpResp.failed = Len(dpSeen)
            /\ dpResp.processed = Len(dpProcessed)
            /\ dpResp.failed = Len(dpFailed)
            /\ Increasing(dpProcessed) /\ Increasing(dpFailed)
            /\ \A i \in 1..Len(dpSeen) :
                /\ (i \in Elems(dpProcessed)) # (i \in Elems(dpFailed))
                /\ (i \in Elems(dpProcessed)) <=>
                     (\A st \in {"decode", "validate", "enrich", "redshift", "s3"} :
                        [step |-> st, ok |-> TRUE] \in Elems(dpSeen[i].steps))

C3_Witness ==
    /\ dpPc = "returned"
    /\ \A i \in 1..Len(dpSeen) : dpSeen[i].kin = "full"
    /\ dpProcessed # <<>>
    /\ dpFailed # <<>>

\* C4: whatever the records contain, lambda_handler never raises and
\* returns 200 with the two counts
C4_NeverRaises ==
    /\ dpPc # "raised"
    /\ dpPc = "returned" =>
        (dpResp.statusCode = 200 /\ dpResp.processed + dpResp.failed = Len(dpSeen))

StepNames(steps) == [i \in 1..Len(steps) |-> steps[i].step]
Position(steps, st) == CHOOSE i \in 1..Len(steps) : steps[i].step = st

\* C5: for each record no Redshift or S3 call is issued unless decode,
\* validate and enrich returned, in that order; the Redshift insert comes
\* before the S3 put; the record is reported as processed only after both
\* stores returned
C5_DecodeValidateEnrichStore ==
    \A i \in 1..Len(dpSeen) :
        LET steps == dpSeen[i].steps
            names == Elems(StepNames(steps))
        IN /\ \A st \in {"redshift", "s3"} : st \in names =>
                 /\ Len(steps) >= 3
                 /\ StepNames(SubSeq(steps, 1, 3)) = <<"decode", "validate", "enrich">>
                 /\ \A k \in 1..3 : steps[k].ok
                 /\ Position(steps, st) > 3
           /\ "s3" \in names =>
                 /\ "redshift" \in names
                 /\ Position(steps, "redshift") < Position(steps, "s3")
                 /\ steps[Position(steps, "redshift")].ok
           /\ i \in Elems(dpProcessed) =>
                 {[step |-> "redshift", ok |-> TRUE], [step |-> "s3", ok |-> TRUE]}
                     \subseteq Elems(steps)

C5_Witness ==
    \E i \in 1..Len(dpSeen) :
        /\ i \in Elems(dpProcessed)
        /\ StepNames(dpSeen[i].steps) = <<"decode", "validate", "enrich", "redshift", "s3">>

\* C26: for a record reported in failed_records no Redshift INSERT was
\* executed successfully and no S3 object was written
C26_FailedLeavesNoTrace ==
    \A i \in Elems(dpFailed) :
        \A k \in 1..Len(dpSeen[i].steps) :
            dpSeen[i].steps[k].step \in {"redshift", "s3"} => ~dpSeen[i].steps[k].ok

\* sample_data_generator.py line 22: the types random.choice picks from
EventTypes == {"view", "click", "purchase", "signup", "login", "logout",
               "add_to_cart", "remove_from_cart"}

\* sample_data_generator.py lines 48-125: the event _generate_event builds
\* for the chosen type: the timestamp is datetime.now().isoformat() + 'Z',
\* the user id comes from the user base, and only purchase and add_to_cart
\* events carry a value, the number drawn
GenerateEvent(choice) ==
    [kin |-> "full", data |-> "object", timestamp |-> "isoZ", user_id |-> "u1",
     event_type |-> choice.event_type,
     value |-> IF choice.event_type \in {"purchase", "add_to_cart"} THEN choice.value
               ELSE "absent"]

(***************************************************************************)
(* data_processor.py: validate_data and get_ml_prediction called on their  *)
(* own, as the unit tests call them                                        *)
(***************************************************************************)
\* the calls: validate_data on a decoded record, get_ml_prediction with
\* what the endpoint will answer
FnInputs ==
    [fn : {"validate_data"}, arg : {d \in DpRecords : d.kin = "full" /\ d.data = "object"}]
    \cup [fn : {"get_ml_prediction"}, arg : SageMakerAnswers]
    \cup [fn : {"_generate_event"}, arg : [event_type : EventTypes, value : {"low", "high"}]]

InitFn ==
    /\ Off("fn")
    /\ fnPc = "start"
    /\ fnIn \in FnInputs
    /\ fnOut = <<>>

FnValidateData ==
    /\ fnPc = "start" /\ fnIn.fn = "validate_data"
    /\ fnOut' = ValidateData(fnIn.arg)
    /\ fnPc' = "done"
    /\ UNCHANGED fnIn
    /\ Frame("fn")

FnGetMlPrediction ==
    /\ fnPc = "start" /\ fnIn.fn = "get_ml_prediction"
    /\ fnOut' = GetMlPrediction(fnIn.arg)
    /\ fnPc' = "done"
    /\ UNCHANGED fnIn
    /\ Frame("fn")

\* a generated event, decoded, is handed to validate_data
FnGenerateEvent ==
    /\ fnPc = "start" /\ fnIn.fn = "_generate_event"
    /\ fnOut' = ValidateData(GenerateEvent(fnIn.arg))
    /\ fnPc' = "done"
    /\ UNCHANGED fnIn
    /\ Frame("fn")

NextFn == FnValidateData \/ FnGetMlPrediction \/ FnGenerateEvent

SpecFn == InitFn /\ [][NextFn]_vars

\* C27: every event _generate_event produces is accepted by validate_data
C27_GeneratedEventsAreValid ==
    (fnPc = "done" /\ fnIn.fn = "_generate_event") => fnOut = "ok"

\* C11: validate_data returns normally exactly when timestamp, user_id and
\* event_type are keys of the record, the timestamp parses as ISO-8601 and
\* the event type is one of the six; otherwise it raises ValueError for the
\* first failing check: missing field, then timestamp, then event type
C11_ValidateDataContract ==
    (fnPc = "done" /\ fnIn.fn = "validate_data") =>
        LET d == fnIn.arg
        IN fnOut =
             CASE d.timestamp = "absent" -> "ValueError: Missing required field: timestamp"
               [] d.user_id = "absent" -> "ValueError: Missing required field: user_id"
               [] d.event_type = "absent" -> "ValueError: Missing required field: event_type"
               [] d.timestamp \notin {"iso", "isoZ"} -> "ValueError: Invalid timestamp format"
               [] d.event_type \notin {"view", "click", "purchase", "signup", "login",
                                       "logout"} -> "ValueError: Invalid event_type"
               [] OTHER -> "ok"

\* C12: when the endpoint answers {'predictions': [{'prediction': p,
\* 'confidence': c}]}, the result r of get_ml_prediction has r['prediction']
\* = p and r['confidence'] = c
C12_PredictionAndConfidence ==
    (fnPc = "done" /\ fnIn.fn = "get_ml_prediction" /\ fnIn.arg.kind = "nested") =>
        /\ ~fnOut.raised
        /\ {"prediction", "confidence"} \subseteq fnOut.keys
        /\ fnOut.prediction = fnIn.arg.p
        /\ fnOut.confidence = fnIn.arg.c

\* C13: when invoke_endpoint raises, get_ml_prediction returns
\* {'prediction': 0.0, 'confidence': 0.0} and does not raise, so the record
\* carries that fallback as ml_prediction, its enrichment succeeds, the
\* Redshift insert is issued, the S3 put follows a successful insert, and the
\* record is counted as processed when both stores return
C13_FallbackKeepsRecord ==
    \A i \in 1..Len(dpSeen) :
        dpSeen[i].sm = "raises" =>
            LET steps == dpSeen[i].steps
            IN /\ dpSeen[i].ml = Dict({"prediction", "confidence"}, 0, 0)
               /\ Len(steps) >= 4
               /\ steps[3] = [step |-> "enrich", ok |-> TRUE]
               /\ steps[4].step = "redshift"
               /\ steps[4].ok => (Len(steps) = 5 /\ steps[5].step = "s3")
               /\ (AllOk(steps) /\ dpSeen[i].kin = "full") => i \in Elems(dpProcessed)

C13_Witness ==
    \E i \in 1..Len(dpSeen) :
        /\ dpSeen[i].sm = "raises"
        /\ dpSeen[i].ml.keys = {"prediction", "confidence"}
        /\ i \in Elems(dpProcessed)

(***************************************************************************)
(* ml_inference.py                                                         *)
(***************************************************************************)
\* a request field: absent, a value float() rejects, or the number n / d
FAbsent == [t |-> "absent", n |-> 0, d |-> 1]
FBad == [t |-> "bad", n |-> 0, d |-> 1]
FRat(n, d) == [t |-> "num", n |-> n, d |-> d]
FNum(n) == FRat(n, 1)

\* the request bodies: one json.loads rejects, a JSON array, or a JSON
\* object with some of the fields of the tests' sample request and of
\* their maximum request
MlRequests ==
    [kind : {"object"},
     user_id : {"absent", "u1"},
     user_age : {FAbsent, FBad, FNum(35), FNum(100)},
     income : {FAbsent, FBad, FNum(50000), FNum(1000000)},
     session_duration : {FAbsent, FNum(1800)},
     is_premium_user : BOOLEAN,
     has_previous_purchase : BOOLEAN,
     page_views : {FAbsent, FNum(5), FNum(1000)},
     time_on_site : {FAbsent, FNum(600)},
     bounce_rate : {FAbsent, FBad, FRat(2, 10), FNum(100)}]
    \cup [kind : {"badjson", "array"}, user_id : {"absent"}, user_age : {FAbsent},
          income : {FAbsent}, session_duration : {FAbsent},
          is_premium_user : {FALSE}, has_previous_purchase : {FALSE},
          page_views : {FAbsent}, time_on_site : {FAbsent}, bounce_rate : {FAbsent}]

\* what lambda_handler is run with: the request, the context (None in the
\* tests, a LambdaContext in production), the helper a test replaces by a
\* mock that raises, and what SageMaker and Redshift will answer.  sagemaker:
\* the body has a non-empty 'predictions' list, an empty one, no such key,
\* cannot be parsed (no JSON, or a value float() rejects), or invoke_endpoint
\* raises
MlInputs ==
    [req : MlRequests,
     context : {"None", "LambdaContext"},
     patched : {"none", "extract_features", "get_prediction", "store_prediction"},
     sagemaker : {"prediction", "empty", "absent", "unparsable", "raises"},
     redshift : {"ok", "raises"}]

NumericFields ==
    <<"user_age", "income", "session_duration", "page_views", "time_on_site", "bounce_rate">>

\* an extract_features that converts field by field: a value float()
\* rejects makes its own feature 0.0 and leaves the others
ExtractFeaturesFieldwise(data) ==
    LET zero == <<0, 1>>
        scaled(f, d) == IF data[f] = FBad THEN zero ELSE <<data[f].n, data[f].d * d>>
        flag(f) == IF data[f] THEN <<1, 1>> ELSE zero
    IN IF data.kind # "object"
       THEN [i \in 1..8 |-> zero]
       ELSE <<scaled("user_age", 100), scaled("income", 100000),
              scaled("session_duration", 3600), flag("is_premium_user"),
              flag("has_previous_purchase"), scaled("page_views", 100),
              scaled("time_on_site", 3600), scaled("bounce_rate", 100)>>

\* extract_features: a feature is the fraction <<numerator, denominator>>;
\* the except clause returns eight zeros
ExtractFeatures(data) ==
    LET zero == <<0, 1>>
        scaled(f, d) == <<data[f].n, data[f].d * d>>
        flag(f) == IF data[f] THEN <<1, 1>> ELSE zero
    IN IF data.kind # "object" \/ \E i \in 1..Len(NumericFields) : data[NumericFields[i]] = FBad
       THEN [i \in 1..8 |-> zero]
       ELSE <<scaled("user_age", 100), scaled("income", 100000),
              scaled("session_duration", 3600), flag("is_premium_user"),
              flag("has_previous_purchase"), scaled("page_views", 100),
              scaled("time_on_site", 3600), scaled("bounce_rate", 100)>>

\* what generate_sample_data divides the eight columns of the training
\* matrix by, in the order of the features
TrainingDivisors == <<100, 100000, 3600, 1, 1, 100, 3600, 1>>

\* prediction, confidence and probability, in hundredths
Scores(p, c, q) == [prediction |-> p, confidence |-> c, probability |-> q]

\* the first element of 'predictions' in the endpoint's answer
EndpointScores == Scores(80, 90, 85)

\* a get_prediction that takes predictions[0] without looking at the length
GetPredictionUnguarded(sagemaker) ==
    CASE sagemaker \in {"raises", "unparsable", "empty"} ->
           [value |-> Scores(0, 0, 0),
            keys |-> {"prediction", "confidence", "probability", "error"}]
      [] sagemaker = "prediction" ->
           [value |-> EndpointScores, keys |-> {"prediction", "confidence", "probability"}]
      [] OTHER ->
           [value |-> Scores(0, 0, 0), keys |-> {"prediction", "confidence", "probability"}]

\* get_prediction: the dict it returns, its values and its keys
GetPrediction(sagemaker) ==
    CASE sagemaker \in {"raises", "unparsable"} ->
           [value |-> Scores(0, 0, 0),
            keys |-> {"prediction", "confidence", "probability", "error"}]
      [] sagemaker = "prediction" ->
           [value |-> EndpointScores, keys |-> {"prediction", "confidence", "probability"}]
      [] OTHER ->
           [value |-> Scores(0, 0, 0), keys |-> {"prediction", "confidence", "probability"}]

\* the step of the try block that raises, or "none"
MlRaisedAt(in) ==
    CASE in.req.kind = "badjson" -> "parse"
      [] in.patched # "none" -> in.patched
      [] in.context = "None" -> "response"
      [] OTHER -> "none"

\* an except clause that logs and raises again
MlExceptReraise(in) ==
    [statusCode |-> 0, keys |-> {}, propagated |-> TRUE]

\* lines 60-72: the except clause of lambda_handler
MlExcept(in) ==
    [statusCode |-> 500, keys |-> {"error", "message"}, propagated |-> FALSE]

\* lambda_handler: the response, the features and prediction computed
\* and the AWS calls issued before the step that raised
MlLambdaHandler(in) ==
    LET at == MlRaisedAt(in)
        reached(step) ==
            CASE at = "parse" -> FALSE
              [] at = "extract_features" -> FALSE
              [] at = "get_prediction" -> step \in {"extract_features"}
              [] at = "store_prediction" -> step \in {"extract_features", "get_prediction"}
              [] OTHER -> TRUE
        resp == IF at = "none"
                THEN [statusCode |-> 200, keys |-> {"prediction", "features", "timestamp"},
                      propagated |-> FALSE]
                ELSE MlExcept(in)
    IN [resp |-> resp,
        raisedAt |-> at,
        features |-> IF reached("extract_features") THEN ExtractFeatures(in.req) ELSE <<>>,
        prediction |-> IF reached("get_prediction") THEN GetPrediction(in.sagemaker)
                       ELSE [value |-> Scores(0, 0, 0), keys |-> {}],
        calls |-> (IF reached("get_prediction") THEN <<"invoke_endpoint">> ELSE <<>>)
                  \o (IF reached("store_prediction") /\ in.req.kind = "object"
                      THEN <<"execute_statement">> ELSE <<>>)]

InitML ==
    /\ Off("ml")
    /\ mlPc = "start"
    /\ mlIn \in MlInputs
    /\ mlOut = <<>>

MlInvoke ==
    /\ mlPc = "start"
    /\ mlPc' = "done"
    /\ mlOut' = MlLambdaHandler(mlIn)
    /\ UNCHANGED mlIn
    /\ Frame("ml")

NextML == MlInvoke

SpecML == InitML /\ [][NextML]_vars

\* C6: for every event whose body is a JSON object and any context,
\* whatever SageMaker and Redshift answer, the handler returns 200 with
\* 'prediction', 'features' and 'timestamp' in the body; a failed SageMaker
\* call gives the zero fallback prediction
C6_ObjectBodyGets200 ==
    (mlPc = "done" /\ mlIn.req.kind = "object" /\ mlIn.patched = "none") =>
        /\ mlOut.resp.statusCode = 200
        /\ {"prediction", "features", "timestamp"} \subseteq mlOut.resp.keys
        /\ mlIn.sagemaker = "raises" => mlOut.prediction.value = Scores(0, 0, 0)

\* C7: lambda_handler never propagates an exception: when a step of the
\* try block raises it returns 500 with an 'error' field, and the status
\* code is always 200 or 500
C7_NeverPropagates ==
    mlPc = "done" =>
        /\ ~mlOut.resp.propagated
        /\ mlOut.resp.statusCode \in {200, 500}
        /\ mlOut.raisedAt # "none" =>
             (mlOut.resp.statusCode = 500 /\ "error" \in mlOut.resp.keys)

C7_Witness ==
    /\ mlPc = "done"
    /\ mlOut.raisedAt = "extract_features"
    /\ mlOut.resp.statusCode = 500

\* the positions of the six numeric fields among the eight features
NumericFeature == <<1, 2, 3, 6, 7, 8>>

\* lambda_handler got as far as calling extract_features
ExtractCalled == mlPc = "done" /\ mlOut.raisedAt \notin {"parse", "extract_features"}

\* C14: extract_features never raises and returns exactly 8 floats; an
\* absent numeric field and an absent or false flag contribute 0.0, and when
\* any numeric field cannot be converted all eight features are 0.0
C14_EightFeatures ==
    ExtractCalled =>
        LET f == mlOut.features
            req == mlIn.req
        IN /\ Len(f) = 8
           /\ \A k \in 1..Len(f) : f[k][2] > 0
           /\ \A i \in 1..Len(NumericFields) :
                req[NumericFields[i]] = FAbsent => f[NumericFeature[i]][1] = 0
           /\ ~req.is_premium_user => f[4][1] = 0
           /\ ~req.has_previous_purchase => f[5][1] = 0
           /\ (\E i \in 1..Len(NumericFields) : req[NumericFields[i]] = FBad)
                => \A k \in 1..Len(f) : f[k][1] = 0

C14_Witness ==
    /\ ExtractCalled
    /\ mlIn.req.kind = "object"
    /\ mlIn.req.user_age = FBad
    /\ mlIn.req.income = FNum(50000)
    /\ mlIn.req.is_premium_user
    /\ \A k \in 1..8 : mlOut.features[k][1] = 0

\* the largest value C15 allows for each numeric field
C15_Max == <<100, 1000000, 86400, 1000, 86400, 100>>

\* C15: for a request whose numeric fields are within 0..100, 0..1000000,
\* 0..86400, 0..1000, 0..86400 and 0..100, each of the 8 features lies in
\* [0, 1]
C15_FeaturesInUnitInterval ==
    (/\ ExtractCalled
     /\ mlIn.req.kind = "object"
     /\ \A i \in 1..Len(NumericFields) :
          LET v == mlIn.req[NumericFields[i]]
          IN v = FAbsent \/ (v.t = "num" /\ 0 <= v.n /\ v.n <= C15_Max[i] * v.d))
    => \A k \in 1..8 :
          0 <= mlOut.features[k][1] /\ mlOut.features[k][1] <= mlOut.features[k][2]

\* C16: every feature has the scaling of the training matrix: the numeric
\* field divided by the divisor generate_sample_data uses for its column (so
\* the eighth feature is bounce_rate unchanged), the flags as 0 or 1.  A
\* feature keeps the field's numerator, so equal fractions have equal parts
C16_SameScalingAsTraining ==
    (/\ ExtractCalled
     /\ mlIn.req.kind = "object"
     /\ \A i \in 1..Len(NumericFields) : mlIn.req[NumericFields[i]] # FBad)
    => /\ \A i \in 1..Len(NumericFields) :
            LET v == mlIn.req[NumericFields[i]]
                f == mlOut.features[NumericFeature[i]]
            IN \/ (v.n = 0 /\ f[1] = 0)
               \/ f = <<v.n, v.d * TrainingDivisors[NumericFeature[i]]>>
       /\ mlOut.features[4] = (IF mlIn.req.is_premium_user THEN <<1, 1>> ELSE <<0, 1>>)
       /\ mlOut.features[5] = (IF mlIn.req.has_previous_purchase THEN <<1, 1>> ELSE <<0, 1>>)

\* C17: get_prediction never raises and returns 'prediction', 'confidence'
\* and 'probability': those of the first element of 'predictions' when it is
\* non-empty, all 0.0 and no 'error' key when it is empty or absent, all 0.0
\* and an 'error' key when the call or the parsing raises
C17_PredictionAlwaysNumeric ==
    (mlPc = "done" /\ "invoke_endpoint" \in Elems(mlOut.calls)) =>
        LET r == mlOut.prediction
        IN /\ {"prediction", "confidence", "probability"} \subseteq r.keys
           /\ mlIn.sagemaker = "prediction" =>
                (r.value = EndpointScores /\ "error" \notin r.keys)
           /\ mlIn.sagemaker \in {"empty", "absent"} =>
                (r.value = Scores(0, 0, 0) /\ "error" \notin r.keys)
           /\ mlIn.sagemaker \in {"raises", "unparsable"} =>
                (r.value = Scores(0, 0, 0) /\ "error" \in r.keys)

C17_Witness ==
    /\ mlPc = "done"
    /\ "invoke_endpoint" \in Elems(mlOut.calls)
    /\ mlIn.sagemaker = "empty"
    /\ mlOut.prediction.value = Scores(0, 0, 0)
    /\ "error" \notin mlOut.prediction.keys

(***************************************************************************)
(* cost_optimizer.py: project3 handler, project6 lambda_handler and lmsEcs *)
(* lambda_handler                                                          *)
(***************************************************************************)
\* the modules project3 cost_optimizer.py imports (lines 1-4)
P3Imports == {"json", "boto3", "logging", "datetime"}

\* the modules lmsEcs cost_optimizer.py imports (lines 1-4)
LmsImports == {"boto3", "json", "logging", "datetime"}

\* what a handler is run with.  prog: the handler.  kinesis .. s3: what the
\* project6 analysis of the service concludes ("error": its first call
\* raises).  applyOk: whether the update calls of project6 return.  found:
\* whether the project3 / lmsEcs look-ups find anything to report.  topic:
\* whether SNS_TOPIC_ARN is set
CostInputs ==
    [prog : {"p6"},
     kinesis : {"error", "scale_down", "scale_up", "maintain"},
     redshift : {"error", "scale_down", "maintain"},
     sagemaker : {"error", "scale_down", "maintain"},
     lambda : {"error", "optimize_memory", "maintain"},
     s3 : {"error", "enable_lifecycle", "maintain"},
     applyOk : BOOLEAN, found : {FALSE}, topic : {FALSE}]
    \cup [prog : {"p3", "lms"}, kinesis : {"error"}, redshift : {"error"},
          sagemaker : {"error"}, lambda : {"error"}, s3 : {"error"},
          applyOk : {FALSE}, found : BOOLEAN, topic : BOOLEAN]

\* generate_optimization_recommendations (project6)
P6Recommendations(in) ==
    LET rec(service, action, risk) ==
            <<[service |-> service, action |-> action, risk_level |-> risk]>>
    IN (CASE in.kinesis = "scale_down" -> rec("kinesis", "scale_down_shards", "low")
          [] in.kinesis = "scale_up" -> rec("kinesis", "scale_up_shards", "low")
          [] OTHER -> <<>>)
       \o (IF in.redshift = "scale_down"
           THEN rec("redshift", "scale_down_nodes", "medium") ELSE <<>>)
       \o (IF in.sagemaker = "scale_down"
           THEN rec("sagemaker", "scale_down_instances", "medium") ELSE <<>>)
       \o (IF in.lambda = "optimize_memory"
           THEN rec("lambda", "optimize_memory", "low") ELSE <<>>)
       \o (IF in.s3 = "enable_lifecycle"
           THEN rec("s3", "enable_lifecycle_policies", "low") ELSE <<>>)

\* an apply step whose Kinesis branch does not look at the action
P6ApplyCallAnyKinesis(rec) ==
    IF rec.risk_level # "low" THEN "none"
    ELSE IF rec.service = "lambda" /\ rec.action = "optimize_memory"
         THEN "lambda.update_function_configuration"
    ELSE IF rec.service = "kinesis" THEN "kinesis.update_shard_count"
    ELSE "none"

\* apply_automatic_optimizations (project6): the call one recommendation
\* triggers, or "none"
P6ApplyCall(rec) ==
    IF rec.risk_level # "low" THEN "none"
    ELSE IF rec.service = "lambda" /\ rec.action = "optimize_memory"
         THEN "lambda.update_function_configuration"
    ELSE IF rec.service = "kinesis" /\ rec.action = "scale_down_shards"
         THEN "kinesis.update_shard_count"
    ELSE "none"

\* apply_automatic_optimizations (project6): the calls issued and the
\* entries appended, recommendation by recommendation
RECURSIVE P6Apply(_, _)
P6Apply(recs, ok) ==
    IF recs = <<>> THEN [calls |-> <<>>, applied |-> <<>>]
    ELSE LET call == P6ApplyCall(Head(recs))
             rest == P6Apply(Tail(recs), ok)
         IN IF call = "none" THEN rest
            ELSE [calls |-> <<call>> \o rest.calls,
                  applied |-> <<[recommendation |-> Head(recs),
                                 status |-> IF ok THEN "applied" ELSE "failed"]>>
                              \o rest.applied]

\* the calls of analyze_resource_utilization (project6): the look-up of each
\* service, then its metrics unless the look-up raised
P6AnalysisCalls(in) ==
    LET metrics(outcome) ==
            IF outcome = "error" THEN <<>> ELSE <<"cloudwatch.get_metric_statistics">>
    IN <<"kinesis.describe_stream">> \o metrics(in.kinesis)
       \o <<"redshift.describe_clusters">> \o metrics(in.redshift)
       \o <<"sagemaker.describe_endpoint">>
       \o (IF in.sagemaker = "error" THEN <<>>
           ELSE <<"sagemaker.describe_endpoint_config", "cloudwatch.get_metric_statistics">>)
       \o <<"lambda.get_function">> \o metrics(in.lambda)
       \o <<"cloudwatch.get_metric_statistics">>

\* the summary of generate_cost_optimization_report (project6)
P6Summary(recs, applied) ==
    LET count(q, P(_)) == Cardinality({i \in 1..Len(q) : P(q[i])})
    IN [total_recommendations |-> Len(recs),
        applied_optimizations |-> count(applied, LAMBDA a : a.status = "applied"),
        failed_optimizations |-> count(applied, LAMBDA a : a.status = "failed"),
        pending_optimizations |-> count(recs, LAMBDA r : r.risk_level # "low")]

\* project6 lambda_handler
P6Handler(in) ==
    LET recs == P6Recommendations(in)
        done == P6Apply(recs, in.applyOk)
    IN [statusCode |-> 200,
        recommendations |-> recs,
        applied |-> done.applied,
        summary |-> P6Summary(recs, done.applied),
        calls |-> <<"ce.get_cost_and_usage">> \o P6AnalysisCalls(in) \o done.calls
                  \o <<"cloudwatch.put_metric_data">>]

NameError == [statusCode |-> 500, recommendations |-> <<>>, applied |-> <<>>, calls |-> <<>>]

\* project3 handler: os.environ is evaluated first
P3Handler(in) ==
    IF "os" \notin P3Imports THEN NameError
    ELSE [statusCode |-> 200, recommendations |-> <<>>, applied |-> <<>>,
          calls |-> <<"ec2.describe_instances">>
                    \o (IF in.found THEN <<"cloudwatch.get_metric_statistics">> ELSE <<>>)
                    \o <<"ec2.describe_instances">>
                    \o (IF in.found THEN <<"cloudwatch.get_metric_statistics">> ELSE <<>>)
                    \o <<"ec2.describe_volumes">>
                    \o (IF in.found THEN <<"ec2.describe_volumes">> ELSE <<>>)
                    \o <<"ec2.describe_addresses", "ce.get_cost_and_usage">>
                    \o (IF in.found /\ in.topic THEN <<"sns.publish">> ELSE <<>>)]

\* lmsEcs lambda_handler: the clients are created, then os.environ is evaluated
LmsHandler(in) ==
    IF "os" \notin LmsImports THEN NameError
    ELSE [statusCode |-> 200, recommendations |-> <<>>, applied |-> <<>>,
          calls |-> <<"ce.get_cost_and_usage", "ce.get_rightsizing_recommendation",
                      "ce.get_reservation_purchase_recommendation">>
                    \o (IF in.found THEN <<"sns.publish">> ELSE <<>>)]

InitCost ==
    /\ Off("cost")
    /\ coPc = "start"
    /\ coIn \in CostInputs
    /\ coOut = <<>>

CostP3 ==
    /\ coPc = "start" /\ coIn.prog = "p3"
    /\ coOut' = P3Handler(coIn)
    /\ coPc' = "done"
    /\ UNCHANGED coIn
    /\ Frame("cost")

CostP6 ==
    /\ coPc = "start" /\ coIn.prog = "p6"
    /\ coOut' = P6Handler(coIn)
    /\ coPc' = "done"
    /\ UNCHANGED coIn
    /\ Frame("cost")

CostLms ==
    /\ coPc = "start" /\ coIn.prog = "lms"
    /\ coOut' = LmsHandler(coIn)
    /\ coPc' = "done"
    /\ UNCHANGED coIn
    /\ Frame("cost")

NextCost == CostP3 \/ CostP6 \/ CostLms

SpecCost == InitCost /\ [][NextCost]_vars

\* the calls that change something: those that are no describe, get or list
CostWrites(calls) ==
    Elems(calls) \ {"ce.get_cost_and_usage", "ce.get_rightsizing_recommendation",
                    "ce.get_reservation_purchase_recommendation",
                    "ec2.describe_instances", "ec2.describe_volumes",
                    "ec2.describe_addresses", "cloudwatch.get_metric_statistics",
                    "kinesis.describe_stream", "redshift.describe_clusters",
                    "sagemaker.describe_endpoint", "sagemaker.describe_endpoint_config",
                    "lambda.get_function"}

\* C8 as stated: no cost-optimizer handler issues a state-changing call;
\* the only writes are the published notification and the metrics
C8_OnlyReads ==
    coPc = "done" =>
        CostWrites(coOut.calls) \subseteq {"sns.publish", "cloudwatch.put_metric_data"}

\* C8 as amended: the project3 and lmsEcs handlers change nothing (their
\* only write is the notification); the project6 handler, besides the
\* metrics, calls lambda update_function_configuration exactly when the
\* Lambda analysis recommends optimize_memory and kinesis update_shard_count
\* exactly when the Kinesis analysis recommends scale_down, and nothing else
C8_WritesOnlyWhenApplying ==
    coPc = "done" =>
        LET writes == CostWrites(coOut.calls)
        IN /\ coIn.prog \in {"p3", "lms"} => writes \subseteq {"sns.publish"}
           /\ coIn.prog = "p6" =>
                /\ writes \subseteq {"cloudwatch.put_metric_data",
                                     "lambda.update_function_configuration",
                                     "kinesis.update_shard_count"}
                /\ "lambda.update_function_configuration" \in writes
                     <=> coIn.lambda = "optimize_memory"
                /\ "kinesis.update_shard_count" \in writes
                     <=> coIn.kinesis = "scale_down"

C8_Witness ==
    /\ coPc = "done"
    /\ coIn.prog = "p6"
    /\ {"lambda.update_function_configuration", "kinesis.update_shard_count"}
           \subseteq Elems(coOut.calls)

\* C20: the result of apply_automatic_optimizations has exactly one entry,
\* 'applied' or 'failed', for each recommendation of risk level 'low' and
\* none for the others, for which no call is issued either; so in the
\* summary total_recommendations = applied + failed + pending
C20_OneEntryPerLowRisk ==
    (coPc = "done" /\ coIn.prog = "p6") =>
        LET recs == coOut.recommendations
            applied == coOut.applied
            entries(r) == {k \in 1..Len(applied) : applied[k].recommendation = r}
        IN /\ \A i \in 1..Len(recs) :
                Cardinality(entries(recs[i])) = (IF recs[i].risk_level = "low" THEN 1 ELSE 0)
           /\ \A k \in 1..Len(applied) :
                /\ applied[k].status \in {"applied", "failed"}
                /\ applied[k].recommendation \in Elems(recs)
           /\ CostWrites(coOut.calls) \subseteq
                {"cloudwatch.put_metric_data", "lambda.update_function_configuration",
                 "kinesis.update_shard_count"}
           /\ coOut.summary.total_recommendations =
                coOut.summary.applied_optimizations + coOut.summary.failed_optimizations
                + coOut.summary.pending_optimizations

(***************************************************************************)
(* auto_remediation.py                                                     *)
(***************************************************************************)
\* the modules auto_remediation.py imports (lines 1-4)
ArImports == {"json", "boto3", "logging", "datetime"}

\* the substrings handler looks for in the lower-cased alarm name, in order
ArKeywords == <<"high-cpu", "high-memory", "disk-space", "instance-status">>

\* what handler is run with.  complete: the event has detail.alarmName,
\* detail.state.value and detail.state.reason.  keywords: the substrings the
\* lower-cased alarm name contains.  instance: whether extract_instance_id
\* finds an id.  topic: whether SNS_TOPIC_ARN is set.  describe, command:
\* what describe_instances and send_command / reboot_instances will answer
ArInputs ==
    [complete : BOOLEAN,
     keywords : SUBSET {ArKeywords[i] : i \in 1..Len(ArKeywords)},
     instance : BOOLEAN,
     topic : BOOLEAN,
     describe : {"running", "stopped", "raises"},
     command : {"ok", "raises"}]

\* the if / elif chain of handler: the first keyword the name contains
RECURSIVE ArBranch(_, _)
ArBranch(keywords, i) ==
    IF i > Len(ArKeywords) THEN "generic"
    ELSE IF ArKeywords[i] \in keywords THEN ArKeywords[i]
    ELSE ArBranch(keywords, i + 1)

\* handle_*_alarm: the action string returned and the calls issued; raised
\* when describe_instances, which no try block guards, raises
ArRemediate(branch, in) ==
    LET result(action, calls) == [raised |-> FALSE, action |-> action, calls |-> calls]
        attempt(api, done) ==
            IF in.command = "ok" THEN result(done, <<api>>)
            ELSE result("Failed", <<api>>)
    IN CASE branch = "generic" -> result("Generic alarm processed", <<>>)
         [] ~in.instance -> result("manual intervention may be required", <<>>)
         [] branch = "high-cpu" ->
              IF in.describe = "raises"
              THEN [raised |-> TRUE, action |-> "", calls |-> <<"ec2.describe_instances">>]
              ELSE IF in.describe = "stopped"
              THEN result("manual intervention may be required", <<"ec2.describe_instances">>)
              ELSE LET r == attempt("ssm.send_command", "Restarted Apache service")
                   IN result(r.action, <<"ec2.describe_instances">> \o r.calls)
         [] branch = "high-memory" -> attempt("ssm.send_command", "Cleared system cache")
         [] branch = "disk-space" -> attempt("ssm.send_command", "Cleaned up disk space")
         [] branch = "instance-status" -> attempt("ec2.reboot_instances", "Rebooted instance")

ArError == [statusCode |-> 500, branches |-> <<>>, action |-> "", alarm |-> FALSE,
            calls |-> <<>>]

\* handler: the event is parsed, then os.environ is evaluated, then one
\* branch runs and the notification is sent
ArHandler(in) ==
    IF ~in.complete \/ "os" \notin ArImports THEN ArError
    ELSE LET branch == ArBranch(in.keywords, 1)
             r == ArRemediate(branch, in)
         IN IF r.raised THEN [ArError EXCEPT !.branches = <<branch>>, !.calls = r.calls]
            ELSE [statusCode |-> 200, branches |-> <<branch>>, action |-> r.action,
                  alarm |-> TRUE,
                  calls |-> r.calls \o (IF in.topic THEN <<"sns.publish">> ELSE <<>>)]

InitAR ==
    /\ Off("ar")
    /\ arPc = "start"
    /\ arIn \in ArInputs
    /\ arOut = <<>>

ArInvoke ==
    /\ arPc = "start"
    /\ arOut' = ArHandler(arIn)
    /\ arPc' = "done"
    /\ UNCHANGED arIn
    /\ Frame("ar")

NextAR == ArInvoke

SpecAR == InitAR /\ [][NextAR]_vars

\* the branch C9 expects: the first of the four substrings, in order
C9_Expected(keywords) ==
    CASE "high-cpu" \in keywords -> "high-cpu"
      [] "high-memory" \in keywords -> "high-memory"
      [] "disk-space" \in keywords -> "disk-space"
      [] "instance-status" \in keywords -> "instance-status"
      [] OTHER -> "generic"

\* C9: for every alarm event with alarmName, state.value and state.reason
\* the handler runs exactly one branch, the first match in order, publishes
\* one notification when SNS_TOPIC_ARN is set, and returns 200 with the
\* alarm name and the action of that branch
C9_OneBranchAnd200 ==
    (arPc = "done" /\ arIn.complete) =>
        /\ arOut.statusCode = 200
        /\ arOut.branches = <<C9_Expected(arIn.keywords)>>
        /\ arOut.alarm
        /\ arOut.action # ""
        /\ Cardinality({i \in 1..Len(arOut.calls) : arOut.calls[i] = "sns.publish"})
             = (IF arIn.topic THEN 1 ELSE 0)

(***************************************************************************)
(* security_response.py                                                    *)
(***************************************************************************)
\* the modules security_response.py imports (lines 1-4)
SrImports == {"json", "boto3", "logging", "datetime"}

\* the substrings handle_guardduty_finding looks for in detail.type, in order
SrTypes == <<"Recon", "Backdoor", "Trojan", "UnauthorizedAPICall">>

\* severity is counted in tenths: 'severity >= 7.0'
SeverityThreshold == 70

\* what handler is run with.  source: what event['source'] contains.  types:
\* the substrings detail.type contains.  severity: detail.severity in tenths
\* (0 when absent).  instance: whether the finding names an instance.  topic:
\* whether SECURITY_SNS_TOPIC_ARN is set.  ec2, archive: what the EC2 calls
\* of isolate_instance and guardduty archive_findings will answer
SrInputs ==
    [source : {"guardduty", "securityhub", "other"},
     types : SUBSET {SrTypes[i] : i \in 1..Len(SrTypes)},
     severity : {0, SeverityThreshold - 1, SeverityThreshold, SeverityThreshold + 15},
     instance : BOOLEAN,
     topic : BOOLEAN,
     ec2 : {"ok", "raises"},
     archive : {"ok", "raises"}]

\* the if / elif chain of handle_guardduty_finding
RECURSIVE SrBranch(_, _)
SrBranch(types, i) ==
    IF i > Len(SrTypes) THEN "generic"
    ELSE IF SrTypes[i] \in types THEN SrTypes[i]
    ELSE SrBranch(types, i + 1)

\* handle_guardduty_finding: the branch run, the actions it joins with '; '
\* and the calls issued
HandleGuardDutyFinding(in) ==
    LET branch == SrBranch(in.types, 1)
        isolates == branch \in {"Backdoor", "Trojan"} /\ in.instance
        first == IF isolates
                 THEN (IF in.ec2 = "ok" THEN "Isolated instance" ELSE "Failed to isolate instance")
                 ELSE branch \o " analyzed"
        branchCalls ==
            IF ~isolates THEN <<>>
            ELSE IF in.ec2 = "raises" THEN <<"ec2.describe_instances">>
            ELSE <<"ec2.describe_instances", "ec2.create_security_group",
                   "ec2.modify_instance_attribute">>
        archives == in.severity >= SeverityThreshold
    IN [branches |-> <<branch>>,
        actions |-> <<first>> \o (IF archives /\ in.archive = "ok"
                                  THEN <<"Archived high-severity finding">> ELSE <<>>),
        calls |-> branchCalls
                  \o (IF archives
                      THEN <<"guardduty.list_detectors", "guardduty.archive_findings">>
                      ELSE <<>>)]

\* handler: os.environ is evaluated first, then the source is dispatched
SrHandler(in) ==
    IF "os" \notin SrImports
    THEN [statusCode |-> 500, branches |-> <<>>, actions |-> <<>>, calls |-> <<>>]
    ELSE LET r == IF in.source = "guardduty" THEN HandleGuardDutyFinding(in)
                  ELSE [branches |-> <<in.source>>, actions |-> <<"processed">>,
                        calls |-> <<>>]
         IN [statusCode |-> 200, branches |-> r.branches, actions |-> r.actions,
             calls |-> r.calls \o (IF in.topic THEN <<"sns.publish">> ELSE <<>>)]

InitSR ==
    /\ Off("sr")
    /\ srPc = "start"
    /\ srIn \in SrInputs
    /\ srOut = <<>>

SrInvoke ==
    /\ srPc = "start"
    /\ srOut' = SrHandler(srIn)
    /\ srPc' = "done"
    /\ UNCHANGED srIn
    /\ Frame("sr")

NextSR == SrInvoke

SpecSR == InitSR /\ [][NextSR]_vars

\* the branch C10 expects: the first of the four type substrings, in order
C10_Expected(types) ==
    CASE "Recon" \in types -> "Recon"
      [] "Backdoor" \in types -> "Backdoor"
      [] "Trojan" \in types -> "Trojan"
      [] "UnauthorizedAPICall" \in types -> "UnauthorizedAPICall"
      [] OTHER -> "generic"

\* C10: for every event whose source contains 'guardduty' the handler runs
\* exactly one finding-type branch, the first match in order, calls
\* archive_findings if and only if the severity is at least 7.0, and returns
\* 200 with the actions; an archive failure does not change the status code
C10_GuardDutyBranchArchive200 ==
    (srPc = "done" /\ srIn.source = "guardduty") =>
        /\ srOut.statusCode = 200
        /\ srOut.branches = <<C10_Expected(srIn.types)>>
        /\ srOut.actions # <<>>
        /\ ("guardduty.archive_findings" \in Elems(srOut.calls))
             <=> srIn.severity >= 70

(***************************************************************************)
(* cross_region_backup.py                                                  *)
(***************************************************************************)
\* the modules cross_region_backup.py imports (lines 1-4)
BkImports == {"boto3", "json", "logging", "datetime"}

\* the manual snapshots of the instance the target region can hold, in the
\* order describe_db_snapshots lists them: created more than 7 days ago or
\* not, 'dr-' in the identifier or not
BkSnapshots == <<[old |-> TRUE, dr |-> TRUE], [old |-> TRUE, dr |-> FALSE],
                 [old |-> FALSE, dr |-> TRUE], [old |-> FALSE, dr |-> FALSE]>>

\* what lambda_handler is run with.  env: the three environment variables
\* are set.  context: None or a LambdaContext.  create .. delete: whether
\* the RDS call (the waiter for wait) returns.  present: the snapshots of
\* BkSnapshots the target region holds
BkInputs ==
    [env : BOOLEAN, context : {"None", "LambdaContext"},
     create : BOOLEAN, wait : BOOLEAN, copy : BOOLEAN, describe : BOOLEAN,
     delete : BOOLEAN, present : SUBSET (1..Len(BkSnapshots))]

\* cleanup_old_snapshots: the calls issued and the snapshots deleted; the
\* first call that raises ends it
CleanupOldSnapshots(in) ==
    LET listed == SelectSeq([i \in 1..Len(BkSnapshots) |-> i], LAMBDA i : i \in in.present)
        chosen == SelectSeq(listed, LAMBDA i : BkSnapshots[i].old /\ BkSnapshots[i].dr)
        tried == IF in.delete \/ chosen = <<>> THEN chosen ELSE <<Head(chosen)>>
    IN IF ~in.describe THEN [calls |-> <<"target.describe_db_snapshots">>, deleted |-> <<>>]
       ELSE [calls |-> <<"target.describe_db_snapshots">>
                       \o [k \in 1..Len(tried) |-> "target.delete_db_snapshot"],
             deleted |-> IF in.delete THEN chosen ELSE <<>>]

\* lambda_handler: os.environ is evaluated first; every exception reaches
\* the except clause, which returns 500
BkHandler(in) ==
    LET failed(calls) == [statusCode |-> 500, snapshots |-> <<>>, calls |-> calls,
                          deleted |-> <<>>]
        cleanup == CleanupOldSnapshots(in)
    IN CASE "os" \notin BkImports \/ ~in.env -> failed(<<>>)
         [] ~in.create -> failed(<<"source.create_db_snapshot">>)
         [] ~in.wait \/ in.context = "None" ->
              failed(<<"source.create_db_snapshot", "source.wait">>)
         [] ~in.copy ->
              failed(<<"source.create_db_snapshot", "source.wait", "target.copy_db_snapshot">>)
         [] OTHER ->
              [statusCode |-> 200, snapshots |-> <<"source", "target">>,
               calls |-> <<"source.create_db_snapshot", "source.wait",
                           "target.copy_db_snapshot">> \o cleanup.calls,
               deleted |-> cleanup.deleted]

InitBK ==
    /\ Off("bk")
    /\ bkPc = "start"
    /\ bkIn \in BkInputs
    /\ bkOut = <<>>

BkInvoke ==
    /\ bkPc = "start"
    /\ bkOut' = BkHandler(bkIn)
    /\ bkPc' = "done"
    /\ UNCHANGED bkIn
    /\ Frame("bk")

NextBK == BkInvoke

SpecBK == InitBK /\ [][NextBK]_vars

\* C19: with the three environment variables set and the RDS calls
\* succeeding, the handler creates the source snapshot, waits, copies, then
\* cleans up, in that order; cleanup deletes exactly the listed snapshots
\* that are older than 7 days and have 'dr-' in their identifier; the
\* handler returns 200 with the source and target snapshot identifiers
C19_BackupSequence ==
    (/\ bkPc = "done" /\ bkIn.env /\ bkIn.context = "LambdaContext"
     /\ bkIn.create /\ bkIn.wait /\ bkIn.copy /\ bkIn.describe /\ bkIn.delete)
    => /\ bkOut.statusCode = 200
       /\ bkOut.snapshots = <<"source", "target">>
       /\ Len(bkOut.calls) >= 4
       /\ SubSeq(bkOut.calls, 1, 4) =
            <<"source.create_db_snapshot", "source.wait", "target.copy_db_snapshot",
              "target.describe_db_snapshots">>
       /\ Elems(bkOut.deleted) =
            {i \in bkIn.present : BkSnapshots[i].old /\ BkSnapshots[i].dr}

(***************************************************************************)
(* compliance_monitor.py: handle_security_group_violation                  *)
(***************************************************************************)
MaxRules == 3

InitCM ==
    /\ Off("cm")
    /\ cmPc = "start"
    \* security_group['IpPermissions']: per rule, whether one of its
    \* IpRanges has CidrIp 0.0.0.0/0
    /\ cmIn \in UNION {[1..n -> BOOLEAN] : n \in 0..MaxRules}
    \* i: the rule the loop is at; present: the rules the group still has;
    \* actions_taken: its length; result: the message returned
    /\ cmSt = [i |-> 1, present |-> 1..Len(cmIn), actions_taken |-> 0, result |-> ""]

\* lines 90-91: describe_security_groups returns the group or raises
CmDescribe ==
    /\ cmPc = "start"
    /\ \E ok \in BOOLEAN :
        IF ok THEN cmPc' = "loop" /\ cmSt' = cmSt
        ELSE cmPc' = "done" /\ cmSt' = [cmSt EXCEPT !.result = "Failed to remediate"]
    /\ UNCHANGED cmIn
    /\ Frame("cm")

\* lines 96-107: one rule of the loop; the revoke call of an open rule
\* returns, or raises and is logged
CmRule ==
    /\ cmPc = "loop"
    /\ cmSt.i <= Len(cmIn)
    /\ \E ok \in BOOLEAN :
        cmSt' = IF cmIn[cmSt.i] /\ ok
                THEN [cmSt EXCEPT !.i = @ + 1, !.present = @ \ {cmSt.i},
                                  !.actions_taken = @ + 1]
                ELSE [cmSt EXCEPT !.i = @ + 1]
    /\ UNCHANGED <<cmPc, cmIn>>
    /\ Frame("cm")

\* lines 109-112
CmReturn ==
    /\ cmPc = "loop"
    /\ cmSt.i > Len(cmIn)
    /\ cmSt' = [cmSt EXCEPT !.result = IF cmSt.actions_taken > 0 THEN "remediated"
                                       ELSE "manual review required"]
    /\ cmPc' = "done"
    /\ UNCHANGED cmIn
    /\ Frame("cm")

NextCM == CmDescribe \/ CmRule \/ CmReturn

SpecCM == InitCM /\ [][NextCM]_vars

\* C21: whenever the function returns the 'remediated' message, no rule
\* that allowed 0.0.0.0/0 when the group was described is still in the
\* group, also with several such rules and failing revoke calls
C21_RemediatedMeansAllRevoked ==
    (cmPc = "done" /\ cmSt.result = "remediated") =>
        \A i \in 1..Len(cmIn) : cmIn[i] => i \notin cmSt.present

(***************************************************************************)
(* performance_tester.py: run_load_tests                                   *)
(***************************************************************************)
ConcurrentRequests == 50
MaxWorkers == 10

InitLT ==
    /\ Off("lt")
    /\ ltPc = "submit"
    \* the futures: not yet picked by a worker (queued), being run
    \* (inflight), finished with a latency (ok) or with an exception
    \* (failed); collected: the length of latencies
    /\ ltSt = [submitted |-> 0, queued |-> 0, inflight |-> 0, ok |-> 0, failed |-> 0,
               collected |-> 0]
    /\ ltOut = [status |-> "", latencies |-> 0]

\* line 341: one executor.submit of the list comprehension
LtSubmit ==
    /\ ltPc = "submit"
    /\ ltSt.submitted < ConcurrentRequests
    /\ ltSt' = [ltSt EXCEPT !.submitted = @ + 1, !.queued = @ + 1]
    /\ UNCHANGED <<ltPc, ltOut>>
    /\ Frame("lt")

\* line 342 is reached once the 50 futures exist
LtSubmitted ==
    /\ ltPc = "submit"
    /\ ltSt.submitted = ConcurrentRequests
    /\ ltPc' = "collect"
    /\ UNCHANGED <<ltSt, ltOut>>
    /\ Frame("lt")

\* a worker thread of the pool takes a queued future and calls
\* send_test_record; the pool has max_workers threads
LtStart ==
    /\ ltSt.queued > 0
    /\ ltSt.inflight < MaxWorkers
    /\ ltSt' = [ltSt EXCEPT !.queued = @ - 1, !.inflight = @ + 1]
    /\ UNCHANGED <<ltPc, ltOut>>
    /\ Frame("lt")

\* lines 331-336: put_record returns and the latency is the result, or it
\* raises and the exception is stored in the future
LtFinish ==
    /\ ltSt.inflight > 0
    /\ \E ok \in BOOLEAN :
        ltSt' = IF ok THEN [ltSt EXCEPT !.inflight = @ - 1, !.ok = @ + 1]
                ELSE [ltSt EXCEPT !.inflight = @ - 1, !.failed = @ + 1]
    /\ UNCHANGED <<ltPc, ltOut>>
    /\ Frame("lt")

\* line 342: as_completed yields a finished future whose result() returns
LtCollect ==
    /\ ltPc = "collect"
    /\ ltSt.collected < ltSt.ok
    /\ ltSt' = [ltSt EXCEPT !.collected = @ + 1]
    /\ UNCHANGED <<ltPc, ltOut>>
    /\ Frame("lt")

\* line 342: as_completed yields a finished future whose result() raises;
\* the list being built is dropped and the with block is left
LtRaise ==
    /\ ltPc = "collect"
    /\ ltSt.failed > 0
    /\ ltPc' = "shutdown"
    /\ ltSt' = [ltSt EXCEPT !.collected = 0]
    /\ UNCHANGED ltOut
    /\ Frame("lt")

\* a with block whose exit does not wait for the futures
LtExecutorExitNoWait(st) == TRUE

\* the exit of the with block is executor.shutdown(wait=True): it returns
\* when no future is queued or running
LtExecutorExit(st) == st.queued = 0 /\ st.inflight = 0

\* lines 344-354: every future was collected
LtReturn ==
    /\ ltPc = "collect"
    /\ ltSt.collected = ConcurrentRequests
    /\ LtExecutorExit(ltSt)
    /\ \E status \in {"PASS", "FAIL"} :
        ltOut' = [status |-> status, latencies |-> ltSt.collected]
    /\ ltPc' = "done"
    /\ UNCHANGED ltSt
    /\ Frame("lt")

\* lines 356-361: the except clause, after the with block was left
LtError ==
    /\ ltPc = "shutdown"
    /\ LtExecutorExit(ltSt)
    /\ ltOut' = [status |-> "ERROR", latencies |-> 0]
    /\ ltPc' = "done"
    /\ UNCHANGED ltSt
    /\ Frame("lt")

NextLT ==
    \/ LtSubmit \/ LtSubmitted \/ LtStart \/ LtFinish
    \/ LtCollect \/ LtRaise \/ LtReturn \/ LtError

SpecLT == InitLT /\ [][NextLT]_vars

\* C22: at most 10 calls are in flight at any moment; when run_load_tests
\* has returned, exactly 50 put_record calls were attempted, the status is
\* PASS or FAIL with statistics over exactly 50 latencies if and only if all
\* 50 succeeded, and 'ERROR' without statistics if any call raised
C22_LoadTestOutcome ==
    /\ ltSt.inflight <= 10
    /\ ltPc = "done" =>
        /\ ltSt.ok + ltSt.failed = 50
        /\ ltSt.queued = 0 /\ ltSt.inflight = 0
        /\ ltOut.status \in {"PASS", "FAIL", "ERROR"}
        /\ (ltOut.status \in {"PASS", "FAIL"} /\ ltOut.latencies = 50) <=> ltSt.failed = 0
        /\ ltSt.failed > 0 => (ltOut.status = "ERROR" /\ ltOut.latencies = 0)

C22_Witness ==
    /\ ltPc = "done"
    /\ ltOut.status = "ERROR"
    /\ ltSt.failed = 1
    /\ ltSt.ok = 49

(***************************************************************************)
(* emr_steps.py: EMRStepsManager.monitor_step                              *)
(***************************************************************************)
\* the longest timeout, counted in polls (one poll and its sleep of 30 s)
MaxPolls == 3

\* the states a step can be in
EmStates == {"PENDING", "CANCEL_PENDING", "RUNNING", "COMPLETED", "CANCELLED", "FAILED",
             "INTERRUPTED"}

\* a loop that also stops at INTERRUPTED
EmFinalWithInterrupted == {"COMPLETED", "FAILED", "CANCELLED", "INTERRUPTED"}

\* line 116: the states at which the loop returns
EmFinal == {"COMPLETED", "FAILED", "CANCELLED"}

InitEM ==
    /\ Off("em")
    /\ emPc = "loop"
    \* timeout: timeout_seconds; elapsed: time.time() - start_time; polls:
    \* what each describe_step call answered, "raise" when it raised
    /\ \E t \in 0..MaxPolls : emSt = [timeout |-> t, elapsed |-> 0, polls |-> <<>>]
    /\ emOut = ""

\* lines 106-129: one iteration of the while loop
EmPoll ==
    /\ emPc = "loop"
    /\ emSt.elapsed < emSt.timeout
    /\ \E answer \in EmStates \cup {"raise"} :
        /\ emSt' = [emSt EXCEPT !.polls = Append(@, answer), !.elapsed = @ + 1]
        /\ emOut' = CASE answer = "raise" -> "ERROR"
                      [] answer \in EmFinal -> answer
                      [] OTHER -> emOut
        /\ emPc' = IF answer = "raise" \/ answer \in EmFinal THEN "done" ELSE "loop"
    /\ Frame("em")

\* lines 131-132: the loop condition is false
EmTimeout ==
    /\ emPc = "loop"
    /\ emSt.elapsed >= emSt.timeout
    /\ emOut' = "TIMEOUT"
    /\ emPc' = "done"
    /\ UNCHANGED emSt
    /\ Frame("em")

NextEM == EmPoll \/ EmTimeout

\* the thread running monitor_step keeps running
SpecEM == InitEM /\ [][NextEM]_vars /\ WF_vars(NextEM)

\* C23: monitor_step terminates and returns one of COMPLETED, FAILED,
\* CANCELLED, ERROR, TIMEOUT: the state of the first poll that observes
\* COMPLETED, FAILED or CANCELLED, 'ERROR' at the first describe_step that
\* raises, and 'TIMEOUT' only when the timeout has elapsed and no poll
\* observed one of the three states or raised
C23_MonitorStep ==
    /\ <>(emPc = "done")
    /\ [](emPc = "done" =>
            LET polls == emSt.polls
                n == Len(polls)
                ends(i) == polls[i] \in {"COMPLETED", "FAILED", "CANCELLED", "raise"}
            IN /\ emOut \in {"COMPLETED", "FAILED", "CANCELLED", "ERROR", "TIMEOUT"}
               /\ \A i \in 1..(n - 1) : ~ends(i)
               /\ emOut \in {"COMPLETED", "FAILED", "CANCELLED"} => (n > 0 /\ polls[n] = emOut)
               /\ emOut = "ERROR" => (n > 0 /\ polls[n] = "raise")
               /\ emOut = "TIMEOUT" =>
                    ((\A i \in 1..n : ~ends(i)) /\ emSt.elapsed >= emSt.timeout))

C23_Witness ==
    /\ emPc = "done"
    /\ emOut = "TIMEOUT"
    /\ emSt.polls # <<>>
    /\ \E i \in 1..Len(emSt.polls) : emSt.polls[i] = "INTERRUPTED"

(***************************************************************************)
(* sample_data_generator.py: SampleDataGenerator.generate_data             *)
(***************************************************************************)
MaxEvents == 4

\* a loop that always generates batch_size events
BatchSizeActualNoMin(batch_size, remaining) == batch_size

\* line 166
BatchSizeActual(batch_size, remaining) ==
    IF batch_size <= remaining THEN batch_size ELSE remaining

\* _send_to_kinesis: put_records returns (TRUE) or raises (FALSE); the
\* client rejects an empty Records list, whose minimum length is 1
PutRecordsOutcomes(size) == IF size = 0 THEN {FALSE} ELSE BOOLEAN

InitGN ==
    /\ Off("gn")
    /\ gnPc = "loop"
    \* batches: the number of events of each put_records call and whether it
    \* returned
    /\ \E n \in 0..MaxEvents, b \in -1..(MaxEvents + 1) :
        gnSt = [num_events |-> n, batch_size |-> b, events_sent |-> 0, batches |-> <<>>]

\* lines 163-182: one iteration of the while loop; range() of a number
\* below 1 is empty
GnBatch ==
    /\ gnPc = "loop"
    /\ gnSt.events_sent < gnSt.num_events
    /\ LET actual == BatchSizeActual(gnSt.batch_size, gnSt.num_events - gnSt.events_sent)
           size == IF actual > 0 THEN actual ELSE 0
       IN \E ok \in PutRecordsOutcomes(size) :
            /\ gnSt' = [gnSt EXCEPT !.batches = Append(@, [size |-> size, ok |-> ok]),
                                    !.events_sent = IF ok THEN @ + actual ELSE @]
            /\ gnPc' = IF ok THEN "loop" ELSE "raised"
    /\ Frame("gn")

\* line 184: the loop condition is false
GnReturn ==
    /\ gnPc = "loop"
    /\ gnSt.events_sent >= gnSt.num_events
    /\ gnPc' = "returned"
    /\ UNCHANGED gnSt
    /\ Frame("gn")

NextGN == GnBatch \/ GnReturn

\* the process running generate_data keeps running
SpecGN == InitGN /\ [][NextGN]_vars /\ WF_vars(NextGN)

RECURSIVE SumSizes(_)
SumSizes(batches) ==
    IF batches = <<>> THEN 0 ELSE Head(batches).size + SumSizes(Tail(batches))

CheckRecordCount(ok) ==
    LET record_count == 1000
        is_healthy == 500 <= record_count /\ record_count <= 2000
    IN IF ~ok THEN "ERROR" ELSE IF is_healthy THEN "PASS" ELSE "FAIL"

\* lines 112-150: the latest record is one minute old, in seconds
CheckDataFreshness(ok) ==
    LET time_diff == 60
        is_fresh == time_diff < 300
    IN IF ~ok THEN "ERROR" ELSE IF is_fresh THEN "PASS" ELSE "FAIL"

\* lines 152-206: completeness >= 95.0, both sides multiplied by total_records
CheckDataCompleteness(ok) ==
    LET total_records == 1000
        null_user_ids == 5
        null_event_types == 2
        null_timestamps == 0
        is_complete == (total_records - null_user_ids - null_event_types - null_timestamps) * 100
                         >= 95 * total_records
    IN IF ~ok THEN "ERROR" ELSE IF is_complete THEN "PASS" ELSE "FAIL"

\* lines 208-249
CheckDataConsistency(ok) ==
    LET duplicate_count == 3
        is_consistent == duplicate_count <= 5
    IN IF ~ok THEN "ERROR" ELSE IF is_consistent THEN "PASS" ELSE "FAIL"

\* lines 251-303: min < avg * 0.5 with both sides doubled
DetectAnomalies(ok) ==
    LET avg_events_per_minute == 20
        max_events_per_minute == 45
        min_events_per_minute == 5
        has_spike == max_events_per_minute > avg_events_per_minute * 2
        has_drop == min_events_per_minute * 2 < avg_events_per_minute
        has_anomaly == has_spike \/ has_drop
    IN IF ~ok THEN "ERROR" ELSE IF ~has_anomaly THEN "PASS" ELSE "FAIL"

\* lines 34-40, in the order of the dict
QcCheckResult(i, ok) ==
    CASE i = 1 -> CheckRecordCount(ok)
      [] i = 2 -> CheckDataFreshness(ok)
      [] i = 3 -> CheckDataCompleteness(ok)
      [] i = 4 -> CheckDataConsistency(ok)
      [] i = 5 -> DetectAnomalies(ok)

CountStatus(checks, status) == Cardinality({i \in DOMAIN checks : checks[i] = status})

\* an analysis that looks at failed checks only
AnalyzeQualityResultsFailedOnly(checks) ==
    LET failed == CountStatus(checks, "FAIL")
        error == CountStatus(checks, "ERROR")
        has_issues == failed > 0
    IN [has_issues |-> has_issues,
        total_checks |-> Len(checks),
        passed_checks |-> Len(checks) - failed - error,
        failed_checks |-> failed,
        error_checks |-> error,
        overall_status |-> IF ~has_issues THEN "HEALTHY" ELSE "UNHEALTHY"]

\* lines 305-329
AnalyzeQualityResults(checks) ==
    LET failed == CountStatus(checks, "FAIL")
        error == CountStatus(checks, "ERROR")
        has_issues == failed > 0 \/ error > 0
    IN [has_issues |-> has_issues,
        total_checks |-> Len(checks),
        passed_checks |-> Len(checks) - failed - error,
        failed_checks |-> failed,
        error_checks |-> error,
        overall_status |-> IF ~has_issues THEN "HEALTHY" ELSE "UNHEALTHY"]

InitQC ==
    /\ Off("qc")
    /\ qcPc = "checks"
    \* redshift: whether each execute_statement returned; checks: the statuses
    /\ qcSt = [redshift |-> <<>>, checks |-> <<>>]
    /\ qcOut = [results |-> <<>>, alert |-> "none", metrics |-> "none", statusCode |-> 0]

\* lines 34-40: the next check of the dict
QcCheck ==
    /\ qcPc = "checks"
    /\ Len(qcSt.checks) < 5
    /\ \E ok \in BOOLEAN :
        qcSt' = [redshift |-> Append(qcSt.redshift, ok),
                 checks |-> Append(qcSt.checks, QcCheckResult(Len(qcSt.checks) + 1, ok))]
    /\ UNCHANGED <<qcPc, qcOut>>
    /\ Frame("qc")

\* lines 43-47: analyze_quality_results, then send_quality_alert, which logs
\* a failing publish
QcAlert ==
    /\ qcPc = "checks"
    /\ Len(qcSt.checks) = 5
    /\ LET results == AnalyzeQualityResults(qcSt.checks)
       IN \E sns \in BOOLEAN :
            qcOut' = [qcOut EXCEPT !.results = results,
                                   !.alert = IF ~results.has_issues THEN "none"
                                             ELSE IF sns THEN "sent" ELSE "failed"]
    /\ qcPc' = "metrics"
    /\ UNCHANGED qcSt
    /\ Frame("qc")

\* lines 50-61: publish_quality_metrics, which logs a failing
\* put_metric_data, then the response
QcMetrics ==
    /\ qcPc = "metrics"
    /\ \E cw \in BOOLEAN :
        qcOut' = [qcOut EXCEPT !.metrics = IF cw THEN "published" ELSE "failed",
                               !.statusCode = 200]
    /\ qcPc' = "done"
    /\ UNCHANGED qcSt
    /\ Frame("qc")

NextQC == QcCheck \/ QcAlert \/ QcMetrics

SpecQC == InitQC /\ [][NextQC]_vars

\* C25: an alert is attempted exactly when a check has FAIL or ERROR, the
\* metrics are published after it, passed + failed + error = total = 5,
\* overall_status is HEALTHY exactly when failed = error = 0, and the
\* response is 200 whatever SNS and CloudWatch did
C25_AlertIffIssues ==
    /\ qcPc = "checks" => qcOut.alert = "none"
    /\ qcPc \in {"checks", "metrics"} => qcOut.metrics = "none"
    /\ qcPc \in {"metrics", "done"} =>
        LET r == qcOut.results
        IN /\ qcOut.alert # "none" <=> \E i \in 1..5 : qcSt.checks[i] \in {"FAIL", "ERROR"}
           /\ r.total_checks = 5
           /\ r.passed_checks + r.failed_checks + r.error_checks = r.total_checks
           /\ r.failed_checks = CountStatus(qcSt.checks, "FAIL")
           /\ r.error_checks = CountStatus(qcSt.checks, "ERROR")
           /\ r.overall_status = "HEALTHY" <=> (r.failed_checks = 0 /\ r.error_checks = 0)
    /\ qcPc = "done" => (qcOut.metrics # "none" /\ qcOut.statusCode = 200)

C25_Witness ==
    /\ qcPc = "done"
    /\ qcOut.alert = "failed"
    /\ qcOut.metrics = "failed"
    /\ qcOut.results.failed_checks = 0
    /\ qcOut.results.error_checks = 1

\* C30: when every execute_statement call succeeds, all five checks PASS,
\* overall_status is HEALTHY and no alert is sent
C30_HealthyWhenRedshiftSucceeds ==
    (qcPc = "done" /\ \A i \in 1..5 : qcSt.redshift[i]) =>
        /\ \A i \in 1..5 : qcSt.checks[i] = "PASS"
        /\ qcOut.results.overall_status = "HEALTHY"
        /\ qcOut.alert = "none"

(***************************************************************************)
(* broken_contact_handler.py against contact_handler.py                    *)
(***************************************************************************)
\* the item process_contact_submission builds, without the generated id and
\* the timestamps; both files build it the same way
Item(data) ==
    [name |-> data.name, email |-> data.email,
     phone |-> IF data.phone = Absent THEN Str(<<>>) ELSE data.phone,
     subject |-> data.subject, message |-> data.message]

\* contact_handler.lambda_handler as a function of the body and of what
\* put_item and publish do when they are called
ContactRun(body, ddb, sns) ==
    IF body.kind = "badjson" THEN [calls |-> <<>>, resp |-> InternalError]
    ELSE LET v == ValidateFormData(body)
             next == AfterValidation(v)
             put == [api |-> "put_item", ok |-> ddb, item |-> Item(body)]
             pub == [api |-> "publish", ok |-> sns, item |-> Item(body)]
         IN CASE next = "raise" -> [calls |-> <<>>, resp |-> InternalError]
              [] next = "return400" ->
                   [calls |-> <<>>,
                    resp |-> CreateResponse(400, "Validation failed", v.errors, 0)]
              [] OTHER ->
                   IF ~ddb THEN [calls |-> <<put>>, resp |-> InternalError]
                   ELSE [calls |-> <<put, pub>>,
                         resp |-> IF AfterPublish(sns) = "return200"
                                  THEN CreateResponse(200, "", <<>>, NewSubmissionId)
                                  ELSE InternalError]

\* the responses of the broken handler: dicts without 'headers'
BrokenResponse(status, error, sid) ==
    [statusCode |-> status, headers |-> {}, error |-> error, details |-> <<>>,
     submission_id |-> sid]

\* a process_contact_submission that reads the required fields with get()
HasRequiredKeysLenient(body) == body.kind = "object"

\* lines 104-108: data['name'] and the like return for a dict that has the
\* key; a list raises TypeError and a missing key KeyError
HasRequiredKeys(body) ==
    /\ body.kind = "object"
    /\ \A i \in 1..Len(RequiredFields) : body[RequiredFields[i]] # Absent

InitBH ==
    /\ Off("bh")
    /\ bhPc = "start"
    \* ddb, sns: whether put_item and publish return when they are called
    /\ bhIn \in [body : {b \in ContactBodies :
                          b.phone \in {Absent, Num, Str(<<>>), Str(<<"7">>), Str(<<"x">>)}},
                 ddb : BOOLEAN, sns : BOOLEAN]
    /\ bhOut = [calls |-> <<>>, resp |-> BrokenResponse(0, "", 0)]

\* lines 27-40: parse the body, then process_contact_submission
BhStore ==
    /\ bhPc = "start"
    /\ IF bhIn.body.kind = "badjson" \/ ~HasRequiredKeys(bhIn.body)
       THEN /\ bhOut' = [bhOut EXCEPT !.resp = BrokenResponse(500, "Internal server error", 0)]
            /\ bhPc' = "done"
       ELSE /\ bhOut' = [calls |-> <<[api |-> "put_item", ok |-> bhIn.ddb,
                                      item |-> Item(bhIn.body)]>>,
                         resp |-> IF bhIn.ddb THEN bhOut.resp
                                  ELSE BrokenResponse(500, "Internal server error", 0)]
            /\ bhPc' = IF bhIn.ddb THEN "stored" ELSE "done"
    /\ UNCHANGED bhIn
    /\ Frame("bh")

\* lines 43-53: send_notification_email logs a failing publish
BhNotify ==
    /\ bhPc = "stored"
    /\ bhOut' = [calls |-> Append(bhOut.calls, [api |-> "publish", ok |-> bhIn.sns,
                                                item |-> Item(bhIn.body)]),
                 resp |-> BrokenResponse(200, "", NewSubmissionId)]
    /\ bhPc' = "done"
    /\ UNCHANGED bhIn
    /\ Frame("bh")

NextBH == BhStore \/ BhNotify

SpecBH == InitBH /\ [][NextBH]_vars

PassesValidation(body) ==
    body.kind # "badjson" /\ ~ValidateFormData(body).raised /\ ValidateFormData(body).valid

C28_FourKeysPresent(body) ==
    body.kind = "object" /\ Absent \notin {body.name, body.email, body.subject, body.message}

\* what C28 says of both handlers on every body: on a body that passes
\* validation the same calls with the same items and the same statusCode;
\* the broken responses have no headers; on a body that fails validation
\* the broken handler never answers 400
C28_Common ==
    LET c == ContactRun(bhIn.body, bhIn.ddb, bhIn.sns)
    IN /\ PassesValidation(bhIn.body) =>
            /\ bhOut.calls = c.calls
            /\ bhOut.resp.statusCode = c.resp.statusCode
            /\ bhOut.resp = [c.resp EXCEPT !.headers = {}]
       /\ bhOut.resp.headers = {} /\ c.resp.headers = CorsHeaders
       /\ ~PassesValidation(bhIn.body) => bhOut.resp.statusCode # 400

\* C28 as stated: the two handlers agree on valid bodies up to the CORS
\* headers, and on a body that fails validation the broken handler stores
\* the item and returns 200 when the four required keys are present, and
\* returns 500 otherwise
C28_BrokenHandlerAsStated ==
    bhPc = "done" =>
        /\ C28_Common
        /\ ~PassesValidation(bhIn.body) =>
            IF C28_FourKeysPresent(bhIn.body)
            THEN /\ bhOut.calls # <<>> /\ bhOut.calls[1].ok
                 /\ bhOut.resp.statusCode = 200
            ELSE bhOut.calls = <<>> /\ bhOut.resp.statusCode = 500

\* C28, amended: with the four required keys present the broken handler
\* calls put_item, and stores and returns 200 when put_item succeeds and
\* returns 500 when it raises
C28_BrokenHandlerAmended ==
    bhPc = "done" =>
        /\ C28_Common
        /\ ~PassesValidation(bhIn.body) =>
            IF C28_FourKeysPresent(bhIn.body)
            THEN /\ bhOut.calls # <<>> /\ bhOut.calls[1].api = "put_item"
                 /\ bhOut.calls[1].ok => (Len(bhOut.calls) = 2 /\ bhOut.resp.statusCode = 200)
                 /\ ~bhOut.calls[1].ok => (Len(bhOut.calls) = 1 /\ bhOut.resp.statusCode = 500)
            ELSE bhOut.calls = <<>> /\ bhOut.resp.statusCode = 500

C28_Witness ==
    /\ bhPc = "done"
    /\ ~PassesValidation(bhIn.body)
    /\ C28_FourKeysPresent(bhIn.body)
    /\ bhIn.body.message = Str(<<>>)
    /\ bhOut.resp.statusCode = 200
    /\ ContactRun(bhIn.body, bhIn.ddb, bhIn.sns).resp.statusCode = 400

(***************************************************************************)
(* security_response.py: isolate_instance over a sequence of findings      *)
(***************************************************************************)
MaxInstances == 2
MaxFindings == 4

\* the instances of one VPC
IsoInstances == 1..MaxInstances

\* lines 237-248: EC2 rejects a group name the VPC already has, and the
\* except clause turns that into None; otherwise the new group's id
CreateIsolationSecurityGroup(names) ==
    IF "isolation-sg" \in names THEN "None" ELSE "sg-isolation"

\* lines 225-228: Groups=[None] is no list of group ids, so the call raises
ModifyInstanceAttributeOk(isolation_sg) == isolation_sg # "None"

InitIso ==
    /\ Off("iso")
    /\ isoPc = "run"
    \* names: the group names of the VPC; groups: each instance's security
    \* groups; reports: what each invocation returned
    /\ isoSt = [names |-> {"web"}, groups |-> [i \in IsoInstances |-> {"sg-web"}],
                reports |-> <<>>]

\* handle_backdoor_activity or handle_trojan_activity for a finding that
\* names instance i, then isolate_instance
IsoFinding ==
    /\ isoPc = "run"
    /\ Len(isoSt.reports) < MaxFindings
    /\ \E i \in IsoInstances, reason \in {"Backdoor activity detected", "Trojan activity detected"} :
        LET isolation_sg == CreateIsolationSecurityGroup(isoSt.names)
            ok == ModifyInstanceAttributeOk(isolation_sg)
        IN isoSt' = [names |-> IF isolation_sg # "None"
                               THEN isoSt.names \cup {"isolation-sg"} ELSE isoSt.names,
                     groups |-> IF ok THEN [isoSt.groups EXCEPT ![i] = {isolation_sg}]
                                ELSE isoSt.groups,
                     reports |-> Append(isoSt.reports,
                                   [instance |-> i, reason |-> reason,
                                    text |-> IF ok THEN "Isolated instance"
                                             ELSE "Failed to isolate instance"])]
    /\ UNCHANGED isoPc
    /\ Frame("iso")

NextIso == IsoFinding

SpecIso == InitIso /\ [][NextIso]_vars

\* C29: after any sequence of Backdoor or Trojan findings every named
\* instance has the isolation security group as its only group and was
\* reported as 'Isolated instance', and no instance whose groups were not
\* replaced is reported as isolated
C29_EveryNamedInstanceIsolated ==
    \A k \in 1..Len(isoSt.reports) :
        LET r == isoSt.reports[k]
        IN /\ r.text = "Isolated instance"
           /\ isoSt.groups[r.instance] = {"sg-isolation"}

(***************************************************************************)
(* all the programs                                                        *)
(***************************************************************************)
Init == InitContact \/ InitDP \/ InitFn \/ InitML \/ InitCost \/ InitAR \/ InitSR \/ InitBK \/ InitCM \/ InitLT \/ InitEM \/ InitGN \/ InitQC \/ InitBH \/ InitIso

Next == NextContact \/ NextDP \/ NextFn \/ NextML \/ NextCost \/ NextAR \/ NextSR \/ NextBK \/ NextCM \/ NextLT \/ NextEM \/ NextGN \/ NextQC \/ NextBH \/ NextIso

Spec == Init /\ [][Next]_vars

====
